---- MODULE Spec2Model ----
(***************************************************************************)
(* A model of the query engine of book/dictionary.py: the lexicon store,   *)
(* the derived-link index, the query tokenizer and recursive-descent       *)
(* parser, predicate evaluation, entry rendering and the link helpers.     *)
(*                                                                         *)
(* Python strings are sequences of one-character strings, so that the      *)
(* character scans of the source (tokenizer, fix_xifan, parse_link,        *)
(* get_links, fix_links) are modelled as the scans they are.               *)
(***************************************************************************)
EXTENDS Integers, Sequences, FiniteSets, TLC

(***************************************************************************)
(* Python str / list primitives                                            *)
(***************************************************************************)

\* x in list
InSeq(x, s) == \E i \in 1..Len(s) : s[i] = x

\* sub in text (substring test); "" is in every text
RECURSIVE ContainsAt(_, _, _)
ContainsAt(text, sub, p) ==
    IF p + Len(sub) - 1 > Len(text) THEN FALSE
    ELSE IF SubSeq(text, p, p + Len(sub) - 1) = sub THEN TRUE
    ELSE ContainsAt(text, sub, p + 1)

Contains(text, sub) == ContainsAt(text, sub, 1)

\* text.startswith(prefix)
StartsWith(text, prefix) ==
    /\ Len(prefix) <= Len(text)
    /\ SubSeq(text, 1, Len(prefix)) = prefix

\* text.index(ch) as a 1-based position, 0 when ch is absent (Python raises then)
RECURSIVE IndexFrom(_, _, _)
IndexFrom(text, ch, p) ==
    IF p > Len(text) THEN 0
    ELSE IF text[p] = ch THEN p
    ELSE IndexFrom(text, ch, p + 1)

Index(text, ch) == IndexFrom(text, ch, 1)

\* text.count(ch)
RECURSIVE Count(_, _)
Count(text, ch) ==
    IF text = <<>> THEN 0
    ELSE (IF Head(text) = ch THEN 1 ELSE 0) + Count(Tail(text), ch)

\* text.split(ch) for a one-character separator: always at least one piece
RECURSIVE SplitAcc(_, _, _, _)
SplitAcc(text, ch, cur, acc) ==
    IF text = <<>> THEN Append(acc, cur)
    ELSE IF Head(text) = ch THEN SplitAcc(Tail(text), ch, <<>>, Append(acc, cur))
    ELSE SplitAcc(Tail(text), ch, Append(cur, Head(text)), acc)

Split(text, ch) == SplitAcc(text, ch, <<>>, <<>>)

\* text.split("@@")
RECURSIVE SplitAtAt(_, _, _)
SplitAtAt(text, cur, acc) ==
    IF text = <<>> THEN Append(acc, cur)
    ELSE IF Len(text) >= 2 /\ text[1] = "@" /\ text[2] = "@"
         THEN SplitAtAt(SubSeq(text, 3, Len(text)), <<>>, Append(acc, cur))
    ELSE SplitAtAt(Tail(text), Append(cur, Head(text)), acc)

\* sep.join(list) for a one-character separator
RECURSIVE Join(_, _)
Join(list, ch) ==
    IF list = <<>> THEN <<>>
    ELSE IF Len(list) = 1 THEN list[1]
    ELSE list[1] \o <<ch>> \o Join(Tail(list), ch)

\* str.lower() on the letters the model uses
LowerChar(c) ==
    CASE c = "S" -> "s"
      [] c = "D" -> "d"
      [] c = "I" -> "i"
      [] c = "H" -> "h"
      [] c = "Q" -> "q"
      [] c = "O" -> "o"
      [] c = "R" -> "r"
      [] c = "A" -> "a"
      [] c = "N" -> "n"
      [] c = "T" -> "t"
      [] c = "B" -> "b"
      [] c = "G" -> "g"
      [] OTHER -> c

Lower(text) == [i \in 1..Len(text) |-> LowerChar(text[i])]

\* text.strip("h")
RECURSIVE LStripH(_)
LStripH(text) ==
    IF text # <<>> /\ Head(text) = "h" THEN LStripH(Tail(text)) ELSE text

RECURSIVE RStripH(_)
RStripH(text) ==
    IF text # <<>> /\ text[Len(text)] = "h"
    THEN RStripH(SubSeq(text, 1, Len(text) - 1)) ELSE text

StripH(text) == RStripH(LStripH(text))

Digits == {"0", "1", "2", "3", "4", "5", "6", "7", "8", "9"}

\* re.fullmatch(r"\d+h?", tag)
IsHomonymTag(tag) ==
    /\ Len(tag) >= 1
    /\ tag[1] \in Digits
    /\ \A i \in 1..Len(tag) :
          \/ tag[i] \in Digits
          \/ i = Len(tag) /\ tag[i] = "h"

(***************************************************************************)
(* fix_xifan: eight regex substitutions applied one after the other        *)
(***************************************************************************)

\* re.sub of one character by a replacement text
RECURSIVE SubChar(_, _, _)
SubChar(text, ch, repl) ==
    IF text = <<>> THEN <<>>
    ELSE (IF Head(text) = ch THEN repl ELSE <<Head(text)>>)
         \o SubChar(Tail(text), ch, repl)

\* An h-substitution that also completes a bare tl to tlh
RECURSIVE SubHCompleting(_, _)
SubHCompleting(text, p) ==
    IF p > Len(text) THEN <<>>
    ELSE IF /\ p + 1 <= Len(text) /\ text[p] = "t" /\ text[p + 1] = "l"
            /\ ~(p + 2 <= Len(text) /\ text[p + 2] = "h")
         THEN <<"t", "l", "h">> \o SubHCompleting(text, p + 2)
    ELSE IF p + 1 <= Len(text) /\ text[p] \notin {"c", "g", "l"} /\ text[p + 1] = "h"
         THEN <<text[p], "H">> \o SubHCompleting(text, p + 2)
    ELSE IF p + 2 <= Len(text) /\ text[p] # "t" /\ text[p + 1] = "l" /\ text[p + 2] = "h"
         THEN <<text[p], "l", "H">> \o SubHCompleting(text, p + 3)
    ELSE IF p = 1 /\ text[p] = "h"
         THEN <<"H">> \o SubHCompleting(text, p + 1)
    ELSE <<text[p]>> \o SubHCompleting(text, p + 1)

\* re.sub(r"([^cgl]|[^t]l|^)h", r"\1H", text): leftmost non-overlapping
\* matches, the alternatives tried in order at each position.
RECURSIVE SubH(_, _)
SubH(text, p) ==
    IF p > Len(text) THEN <<>>
    ELSE IF p + 1 <= Len(text) /\ text[p] \notin {"c", "g", "l"} /\ text[p + 1] = "h"
         THEN <<text[p], "H">> \o SubH(text, p + 2)
    ELSE IF p + 2 <= Len(text) /\ text[p] # "t" /\ text[p + 1] = "l" /\ text[p + 2] = "h"
         THEN <<text[p], "l", "H">> \o SubH(text, p + 3)
    ELSE IF p = 1 /\ text[p] = "h"
         THEN <<"H">> \o SubH(text, p + 1)
    ELSE <<text[p]>> \o SubH(text, p + 1)

\* re.sub(r"c(?!h)", "ch", text)
RECURSIVE SubC(_, _)
SubC(text, p) ==
    IF p > Len(text) THEN <<>>
    ELSE IF text[p] = "c" /\ ~(p + 1 <= Len(text) /\ text[p + 1] = "h")
         THEN <<"c", "h">> \o SubC(text, p + 1)
    ELSE <<text[p]>> \o SubC(text, p + 1)

\* re.sub(r"(?<!n)g(?!h)", "gh", text)
RECURSIVE SubG(_, _)
SubG(text, p) ==
    IF p > Len(text) THEN <<>>
    ELSE IF /\ text[p] = "g"
            /\ ~(p > 1 /\ text[p - 1] = "n")
            /\ ~(p + 1 <= Len(text) /\ text[p + 1] = "h")
         THEN <<"g", "h">> \o SubG(text, p + 1)
    ELSE <<text[p]>> \o SubG(text, p + 1)

fix_xifan(query) ==
    LET q1 == SubChar(query, "i", <<"I">>)
        q2 == SubChar(q1, "d", <<"D">>)
        q3 == SubChar(q2, "s", <<"S">>)
        q4 == SubH(q3, 1)
        q5 == SubChar(q4, "x", <<"t", "l", "h">>)
        q6 == SubChar(q5, "f", <<"n", "g">>)
        q7 == SubC(q6, 1)
        q8 == SubG(q7, 1)
    IN  q8

(***************************************************************************)
(* Query DSL: tokenizer, recursive-descent parser, predicate evaluation    *)
(***************************************************************************)

T_OR  == <<"O", "R">>
T_TAI == <<"T", "A", "I">>
T_AND == <<"A", "N", "D">>
T_JA  == <<"J", "A">>
T_NOT == <<"N", "O", "T">>
T_EI  == <<"E", "I">>

EN == <<"e", "n">>
DE == <<"d", "e">>

\* dictionary.locales: the locale codes of the loaded dictionary
Locales == {EN, DE}

\* The character scan at the head of dsl_query: parts starts as [""]
RECURSIVE TokScan(_, _, _, _)
TokScan(query, i, quote, parts) ==
    IF i > Len(query) THEN parts
    ELSE LET c == query[i]
             n == Len(parts)
         IN  IF ~quote /\ c = " "
                 THEN TokScan(query, i + 1, quote, Append(parts, <<>>))
             ELSE IF ~quote /\ c \in {"(", ")"}
                 THEN TokScan(query, i + 1, quote, parts \o <<<<c>>, <<>>>>)
             ELSE IF c = "\""
                 THEN TokScan(query, i + 1, ~quote, parts)
             ELSE TokScan(query, i + 1, quote,
                          [parts EXCEPT ![n] = Append(parts[n], c)])

Tokenize(query) == TokScan(query, 1, FALSE, <<<<>>>>)

\* The closures the parser builds, as trees
TrueNode      == [op |-> "true"]
FalseNode     == [op |-> "false"]
\* An OR that tries its right operand first
create_or_swapped(a, b) == [op |-> "or", a |-> b, b |-> a]
create_or(a, b)  == [op |-> "or", a |-> a, b |-> b]
create_and(a, b) == [op |-> "and", a |-> a, b |-> b]
\* A NOT that is parsed and then dropped
NotNodeDropped(r) == r
NotNode(r)    == [op |-> "not", r |-> r]
FieldNode(f, arg) == [op |-> "field", f |-> f, arg |-> arg]
WordNode(part)    == [op |-> "word", part |-> part]

\* The names of the base operators of QUERY_OPERATORS
O_tlh        == <<"t", "l", "h">>
O_notes      == <<"n", "o", "t", "e", "s">>
O_ex         == <<"e", "x">>
O_pos        == <<"p", "o", "s">>
O_antonym    == <<"a", "n", "t", "o", "n", "y", "m">>
O_synonym    == <<"s", "y", "n", "o", "n", "y", "m">>
O_components == <<"c", "o", "m", "p", "o", "n", "e", "n", "t", "s">>
O_see        == <<"s", "e", "e">>

BaseOperators ==
    {O_tlh, O_notes, O_ex, O_pos, O_antonym, O_synonym, O_components, O_see}

\* add_operators / init_operators: three operators per locale
LocaleOperators ==
    Locales \cup {l \o O_notes : l \in Locales} \cup {l \o O_ex : l \in Locales}

\* The keys of QUERY_OPERATORS once init_operators has run
QUERY_OPERATORS == BaseOperators \cup LocaleOperators

\* A leaf that lets an unregistered operator match every entry
LeafNodeOpen(part) ==
    IF InSeq(":", part)
    THEN LET k   == Index(part, ":")
             op  == SubSeq(part, 1, k - 1)
             arg == SubSeq(part, k + 1, Len(part))
         IN  IF op \in QUERY_OPERATORS THEN FieldNode(op, arg) ELSE TrueNode
    ELSE WordNode(part)

\* parse_term's branch on a token that is neither "(" nor NOT/EI
LeafNode(part) ==
    IF InSeq(":", part)
    THEN LET k   == Index(part, ":")
             op  == SubSeq(part, 1, k - 1)
             arg == SubSeq(part, k + 1, Len(part))
         IN  IF op \in QUERY_OPERATORS THEN FieldNode(op, arg) ELSE FalseNode
    ELSE WordNode(part)

\* Each parse function returns the closure and the tokens it left in parts
RECURSIVE parse_or(_), ParseOrLoop(_, _), parse_and(_), ParseAndLoop(_, _), parse_term(_)

\* A parse_term that leaves a closing parenthesis it meets where it is
parse_term_keeps_closer(parts) ==
    IF parts = <<>> THEN [f |-> TrueNode, rest |-> <<>>]
    ELSE LET part == Head(parts)
             rest == Tail(parts)
         IN  IF part = <<")">>
                 THEN [f |-> TrueNode, rest |-> parts]
             ELSE IF part = <<"(">>
                 THEN LET r == parse_or(rest)
                      IN  [f |-> r.f,
                           rest |-> IF r.rest # <<>> THEN Tail(r.rest) ELSE <<>>]
             ELSE IF part \in {T_NOT, T_EI}
                 THEN LET r == parse_term(rest)
                      IN  [f |-> NotNode(r.f), rest |-> r.rest]
             ELSE [f |-> LeafNode(part), rest |-> rest]

\* A loop of parse_and that goes on only at an explicit AND / JA
ParseAndLoopExplicit(a, parts) ==
    IF parts # <<>> /\ Head(parts) \in {T_AND, T_JA}
    THEN LET b == parse_term(Tail(parts))
         IN  ParseAndLoop(create_and(a, b.f), b.rest)
    ELSE [f |-> a, rest |-> parts]

parse_term(parts) ==
    IF parts = <<>> THEN [f |-> TrueNode, rest |-> <<>>]
    ELSE LET part == Head(parts)
             rest == Tail(parts)
         IN  IF part = <<"(">>
                 THEN LET r == parse_or(rest)
                      IN  [f |-> r.f,
                           rest |-> IF r.rest # <<>> THEN Tail(r.rest) ELSE <<>>]
             ELSE IF part \in {T_NOT, T_EI}
                 THEN LET r == parse_term(rest)
                      IN  [f |-> NotNode(r.f), rest |-> r.rest]
             ELSE [f |-> LeafNode(part), rest |-> rest]

ParseAndLoop(a, parts) ==
    IF parts # <<>> /\ Head(parts) \notin {<<")">>, T_OR, T_TAI}
    THEN LET ps == IF Head(parts) \in {T_AND, T_JA} THEN Tail(parts) ELSE parts
             b  == parse_term(ps)
         IN  ParseAndLoop(create_and(a, b.f), b.rest)
    ELSE [f |-> a, rest |-> parts]

parse_and(parts) ==
    LET a == parse_term(parts) IN ParseAndLoop(a.f, a.rest)

ParseOrLoop(a, parts) ==
    IF parts # <<>> /\ Head(parts) \in {T_OR, T_TAI}
    THEN LET b == parse_and(Tail(parts))
         IN  ParseOrLoop(create_or(a, b.f), b.rest)
    ELSE [f |-> a, rest |-> parts]

parse_or(parts) ==
    LET a == parse_and(parts) IN ParseOrLoop(a.f, a.rest)

(***************************************************************************)
(* State                                                                   *)
(***************************************************************************)

VARIABLES
    dictionary,     \* dictionary.entries, in store order: a sequence of entries
    derived_index,  \* the module-level defaultdict: identifier -> list of entries
    analyzer,       \* yajwiz.analyze, the external analyzer: word -> analyses
    language,       \* DictionaryQuery.language of this process
    link_format,    \* DictionaryQuery.link_format of this process
    call,           \* the last call made: its function and its argument
    result          \* what that call returned, or that it raised

vars == <<dictionary, derived_index, analyzer, language, link_format,
          call, result>>

\* A call either returns a value or raises
Ok(v)  == [ok |-> TRUE, v |-> v]
Raised == [ok |-> FALSE]

\* d.get(k, default)
Get(d, k, default) == IF k \in DOMAIN d THEN d[k] ELSE default

StoreIds == {dictionary[i].id : i \in 1..Len(dictionary)}

\* dictionary.entries[id], for an id of the store
EntryById(id) ==
    LET i == CHOOSE j \in 1..Len(dictionary) : dictionary[j].id = id
    IN  dictionary[i]

(***************************************************************************)
(* Predicate evaluation: "match", "nomatch" or "raise"                     *)
(***************************************************************************)

\* re.search(pattern, text) for patterns over the model's characters: an
\* opening bracket never closed is an re.error, every other character of
\* the model is a literal.
ReSearch(pattern, text) ==
    IF InSeq("[", pattern) THEN "raise"
    ELSE IF Contains(text, pattern) THEN "match" ELSE "nomatch"

\* re.search(pattern, text, re.IGNORECASE)
ReSearchIgnoreCase(pattern, text) == ReSearch(Lower(pattern), Lower(text))

\* text.split(): the non-empty pieces between spaces
SplitWords(text) == SelectSeq(Split(text, " "), LAMBDA w : w # <<>>)

any_word_starts_with(word, words) ==
    \E i \in 1..Len(words) : StartsWith(Lower(words[i]), Lower(word))

\* QUERY_OPERATORS[op](entry, arg)
EvalField(op, arg, entry) ==
    CASE op = O_tlh -> ReSearch(fix_xifan(arg), entry.name)
      [] op = O_notes -> ReSearchIgnoreCase(arg, Get(entry.notes, EN, <<>>))
      [] op = O_ex -> ReSearch(arg, Get(entry.examples, EN, <<>>))
      [] op = O_pos ->
            IF {Split(arg, ",")[i] : i \in 1..Len(Split(arg, ","))}
                  \subseteq ({entry.simple_pos} \cup entry.tags)
            THEN "match" ELSE "nomatch"
      [] op = O_antonym -> ReSearch(fix_xifan(arg), entry.antonyms)
      [] op = O_synonym -> ReSearch(fix_xifan(arg), entry.synonyms)
      [] op = O_components -> ReSearch(fix_xifan(arg), entry.components)
      [] op = O_see -> ReSearch(fix_xifan(arg), entry.see_also)
      [] op \in Locales ->
            IF op \notin DOMAIN entry.definition THEN "raise"
            ELSE LET r == ReSearch(arg, entry.definition[op])
                 IN  IF r # "nomatch" THEN r
                     ELSE IF InSeq(arg, Get(entry.search_tags, op, <<>>))
                          THEN "match" ELSE "nomatch"
      [] \E l \in Locales : op = l \o O_notes ->
            LET l == CHOOSE l \in Locales : op = l \o O_notes
            IN  ReSearch(arg, Get(entry.notes, l, <<>>))
      [] \E l \in Locales : op = l \o O_ex ->
            LET l == CHOOSE l \in Locales : op = l \o O_ex
            IN  ReSearch(arg, Get(entry.examples, l, <<>>))

\* A bare word that matches nothing when it is the empty token
EvalWordNonEmpty(part, entry) ==
    IF part = <<>> THEN "nomatch"
    ELSE IF Contains(entry.name, fix_xifan(part)) THEN "match"
    ELSE IF any_word_starts_with(part, Get(entry.search_tags, language, <<>>))
        THEN "match"
    ELSE IF any_word_starts_with(part,
                SplitWords(Lower(Get(entry.definition, language, <<>>))))
        THEN "match"
    ELSE "nomatch"

\* func(entry) of parse_term: a bare word
EvalWord(part, entry) ==
    IF Contains(entry.name, fix_xifan(part)) THEN "match"
    ELSE IF any_word_starts_with(part, Get(entry.search_tags, language, <<>>))
        THEN "match"
    ELSE IF any_word_starts_with(part,
                SplitWords(Lower(Get(entry.definition, language, <<>>))))
        THEN "match"
    ELSE "nomatch"

\* Calling the closure on an entry; an exception propagates through
\* or / and / not, and or / and short-circuit left to right.
RECURSIVE Eval(_, _)
Eval(node, entry) ==
    CASE node.op = "true" -> "match"
      [] node.op = "false" -> "nomatch"
      [] node.op = "word" -> EvalWord(node.part, entry)
      [] node.op = "field" -> EvalField(node.f, node.arg, entry)
      [] node.op = "not" ->
            LET r == Eval(node.r, entry)
            IN  IF r = "raise" THEN "raise"
                ELSE IF r = "match" THEN "nomatch" ELSE "match"
      [] node.op = "or" ->
            LET a == Eval(node.a, entry)
            IN  IF a = "nomatch" THEN Eval(node.b, entry) ELSE a
      [] node.op = "and" ->
            LET a == Eval(node.a, entry)
            IN  IF a = "match" THEN Eval(node.b, entry) ELSE a

\* The try / except around query_function(entry) in dsl_query
Matches(query_function, entry) ==
    Eval(query_function, entry) = "match"

(***************************************************************************)
(* Cross-reference tokens                                                  *)
(***************************************************************************)

S_nolink == <<"n", "o", "l", "i", "n", "k">>
S_src    == <<"s", "r", "c">>
S_url    == <<"u", "r", "l">>
S_sen    == <<"s", "e", "n">>
S_hyp    == <<"h", "y", "p">>
S_extcan == <<"e", "x", "t", "c", "a", "n">>
S_affix  == <<"a", "f", "f", "i", "x">>

parse_link(link) ==
    LET parts1 == SplitAtAt(link, <<>>, <<>>)
        parts2 == Split(parts1[1], ":")
    IN  [link_text |-> parts2[1],
         link_type |-> IF Len(parts2) > 1 THEN parts2[2] ELSE <<>>,
         tags      |-> IF Len(parts2) > 2 THEN Split(parts2[3], ",") ELSE <<>>,
         parts1    |-> parts1,
         parts2    |-> parts2]

\* A get_id that keeps the h of a hidden homophone number
get_id_keep_h(link_text, link_type, tags) ==
    LET homonyms == SelectSeq(tags, IsHomonymTag)
    IN  link_text \o <<":">> \o Join(<<link_type>> \o homonyms, ":")

get_id(link_text, link_type, tags) ==
    LET hs       == SelectSeq(tags, IsHomonymTag)
        homonyms == [i \in 1..Len(hs) |-> StripH(hs[i])]
    IN  link_text \o <<":">> \o Join(<<link_type>> \o homonyms, ":")

\* get_links(text): the identifiers of the tokens of text, in order; raises
\* when an opening brace has no closing brace after it
RECURSIVE get_links(_)
get_links(text) ==
    IF ~InSeq("{", text) THEN Ok(<<>>)
    ELSE LET t1 == SubSeq(text, Index(text, "{") + 1, Len(text))
             j  == Index(t1, "}")
         IN  IF j = 0 THEN Raised
             ELSE LET l    == parse_link(SubSeq(t1, 1, j - 1))
                      rest == get_links(SubSeq(t1, j + 1, Len(t1)))
                  IN  IF rest.ok
                      THEN Ok(<<get_id(l.link_text, l.link_type, l.tags)>> \o rest.v)
                      ELSE Raised

S_AUTOTRANSLATED ==
    <<"A", "U", "T", "O", "T", "R", "A", "N", "S", "L", "A", "T", "E", "D">>
S_TRANSLATE == <<"T", "R", "A", "N", "S", "L", "A", "T", "E">>

\* get_unless_translated(d): d["en"] raises KeyError when "en" is absent
get_unless_translated(d) ==
    IF language \notin DOMAIN d \/ d[language] = <<>>
        THEN Ok(Get(d, EN, <<>>))
    ELSE IF Contains(d[language], S_AUTOTRANSLATED) \/ d[language] = S_TRANSLATE
        THEN IF EN \in DOMAIN d THEN Ok(d[EN]) ELSE Raised
    ELSE Ok(d[language])

\* style = "affix" if "-" in link_text else link_type if link_type else "sen"
Style(link_text, link_type) ==
    IF InSeq("-", link_text) THEN S_affix
    ELSE IF link_type # <<>> THEN link_type ELSE S_sen

\* The first i of 1..9 for which str(i) or str(i)+"h" is among the tags
DigitChar(i) ==
    CASE i = 1 -> "1" [] i = 2 -> "2" [] i = 3 -> "3" [] i = 4 -> "4"
      [] i = 5 -> "5" [] i = 6 -> "6" [] i = 7 -> "7" [] i = 8 -> "8"
      [] i = 9 -> "9"

HomonymHit(tags) ==
    {i \in 1..9 : InSeq(<<DigitChar(i)>>, tags) \/ InSeq(<<DigitChar(i), "h">>, tags)}

FirstHomonym(tags) ==
    CHOOSE i \in HomonymHit(tags) : \A j \in HomonymHit(tags) : i <= j

HypMark(tags) ==
    IF InSeq(S_hyp, tags) THEN "hyp" ELSE IF InSeq(S_extcan, tags) THEN "extcan" ELSE "none"

\* The anchor LinkRenderer.render_link returns, once the homonym number i
\* (0: none) and the title are known
EntryLink(link_text, link_type, tags, i, found, defn) ==
    IF ~defn.ok THEN Raised
    ELSE Ok([kind    |-> "entrylink",
             text    |-> link_text,
             pos     |-> IF link_type # <<>> /\ link_type # S_sen
                         THEN link_type ELSE <<>>,
             hom     |-> IF i > 0 /\ InSeq(<<DigitChar(i)>>, tags) THEN i ELSE 0,
             hom_pos |-> i,
             hyp     |-> HypMark(tags),
             style   |-> Style(link_text, link_type),
             titled  |-> found,
             title   |-> defn.v])

\* The title of an entry link: the definition of the entry word_id names,
\* when the store has one
Title(word_id) ==
    IF word_id \in StoreIds
    THEN get_unless_translated(EntryById(word_id).definition)
    ELSE Ok(<<>>)

\* LinkRenderer.render_link
render_link_html(link_text, link_type, tags) ==
    EntryLink(link_text, link_type, tags,
              IF HomonymHit(tags) # {} THEN FirstHomonym(tags) ELSE 0,
              get_id(link_text, link_type, tags) \in StoreIds,
              Title(get_id(link_text, link_type, tags)))

\* " ".join("\\mbox{" + word + "}" for word in link_text.split(" "))
MboxWord(w) == <<"\\", "m", "b", "o", "x", "{">> \o w \o <<"}">>

Mbox(link_text) ==
    LET ws == Split(link_text, " ")
    IN  Join([i \in 1..Len(ws) |-> MboxWord(ws[i])], " ")

\* LinkRendererLatex._render_link: no store lookup, no title
render_link_latex(link_text, link_type, tags) ==
    LET hit   == HomonymHit(tags) # {}
        i     == IF hit THEN FirstHomonym(tags) ELSE 0
        shown == hit /\ InSeq(<<DigitChar(i)>>, tags)
    IN  Ok([kind  |-> "entryref",
            text  |-> link_text,
            hom   |-> IF shown THEN i ELSE 0,
            hyp   |-> HypMark(tags),
            style |-> Style(link_text, link_type)])

\* render_link(entry.name, entry.simple_pos, entry.tags) of the renderer in use
render_link(link_text, link_type, tags) ==
    IF link_format = "html" THEN render_link_html(link_text, link_type, tags)
    ELSE render_link_latex(Mbox(link_text), link_type, tags)

\* A fix_link that looks at the type before it looks for nolink
FixParsedTypeFirst(l) ==
    IF l.link_type = S_src
        THEN Ok([kind |-> "source", text |-> l.link_text])
    ELSE IF l.link_type = S_url
        THEN IF Len(l.parts2) < 3 THEN Raised
             ELSE Ok([kind |-> "url", text |-> l.link_text, addr |-> l.parts2[3]])
    ELSE IF InSeq(S_nolink, l.tags)
        THEN Ok([kind |-> "plain", text |-> l.link_text,
                 style |-> Style(l.link_text, l.link_type)])
    ELSE IF Len(l.parts1) = 2
        THEN Ok([kind |-> "search", text |-> l.link_text,
                 style |-> IF l.link_type # <<>> THEN l.link_type ELSE S_sen])
    ELSE render_link_html(l.link_text, l.link_type, l.tags)

\* LinkRenderer.fix_link on the token parse_link has split
FixParsed(l) ==
    IF InSeq(S_nolink, l.tags)
        THEN Ok([kind |-> "plain", text |-> l.link_text,
                 style |-> Style(l.link_text, l.link_type)])
    ELSE IF l.link_type = S_src
        THEN Ok([kind |-> "source", text |-> l.link_text])
    ELSE IF l.link_type = S_url
        THEN IF Len(l.parts2) < 3 THEN Raised
             ELSE Ok([kind |-> "url", text |-> l.link_text, addr |-> l.parts2[3]])
    ELSE IF Len(l.parts1) = 2
        THEN Ok([kind |-> "search", text |-> l.link_text,
                 style |-> IF l.link_type # <<>> THEN l.link_type ELSE S_sen])
    ELSE render_link_html(l.link_text, l.link_type, l.tags)

fix_link_html(link) == FixParsed(parse_link(link))

\* LinkRendererLatex.fix_link on the token parse_link has split; text is the
\* link text, in boxes unless the token is a source or a url
FixParsedLatex(l, text) ==
    IF InSeq(S_nolink, l.tags)
        THEN Ok([kind |-> "plain", text |-> text,
                 style |-> Style(text, l.link_type)])
    ELSE IF l.link_type = S_src
        THEN Ok([kind |-> "source", text |-> text])
    ELSE IF l.link_type = S_url
        THEN IF Len(l.parts2) < 3 THEN Raised
             ELSE Ok([kind |-> "urltext", text |-> text])
    ELSE IF Len(l.parts1) = 2
        THEN Ok([kind |-> "ref", text |-> text,
                 style |-> IF l.link_type # <<>> THEN l.link_type ELSE S_sen])
    ELSE render_link_latex(text, l.link_type, l.tags)

BoxedText(l) ==
    IF l.link_type \notin {S_src, S_url} THEN Mbox(l.link_text) ELSE l.link_text

fix_link_latex(link) == FixParsedLatex(parse_link(link), BoxedText(parse_link(link)))

fix_link(link) ==
    IF link_format = "html" THEN fix_link_html(link) ELSE fix_link_latex(link)

\* ans.replace("\n", "<br>") on a run of plain text
Br(text) == SubChar(text, "\n", <<"<", "b", "r", ">">>)

Plain(text) == [kind |-> "text", text |-> Br(text)]

\* One round of the loop of fix_links: the text before the token, the
\* rendered token, and the rest of the text once fixed
FixJoin(before, link, rest) ==
    IF ~link.ok \/ ~rest.ok THEN Raised
    ELSE Ok(<<Plain(before), [link.v EXCEPT !.text = Br(@)]>> \o rest.v)

\* fix_links(text): the plain runs and the rendered tokens, in order; raises
\* when an opening brace has no closing brace, or when a token's rendering raises
RECURSIVE fix_links(_)
fix_links(text) ==
    IF ~InSeq("{", text) THEN Ok(<<Plain(text)>>)
    ELSE LET i  == Index(text, "{")
             t1 == SubSeq(text, i + 1, Len(text))
             j  == Index(t1, "}")
         IN  IF j = 0 THEN Raised
             ELSE FixJoin(SubSeq(text, 1, i - 1),
                          fix_link(SubSeq(t1, 1, j - 1)),
                          fix_links(SubSeq(t1, j + 1, Len(t1))))

(***************************************************************************)
(* render_entry                                                            *)
(***************************************************************************)

\* A dict without keys
NoKeys == [k \in {} |-> 0]

\* A set of tags as a list (render_link iterates entry.tags)
RECURSIVE SeqOfSet(_)
SeqOfSet(S) ==
    IF S = {} THEN <<>>
    ELSE LET x == CHOOSE y \in S : TRUE IN <<x>> \o SeqOfSet(S \ {x})

\* The key of locale_strings that labels the part of speech
PosLabel(entry) ==
    LET has(t) == t \in entry.tags
    IN  CASE entry.simple_pos = <<"v">> ->
                  IF has(<<"i", "s">>) THEN "adjective"
                  ELSE IF has(<<"t", "_", "c">>) THEN "transitive verb"
                  ELSE IF has(<<"t">>) THEN "possibly transitive verb"
                  ELSE IF has(<<"i", "_", "c">>) THEN "intransitive verb"
                  ELSE IF has(<<"i">>) THEN "possibly intransitive verb"
                  ELSE IF has(<<"p", "r", "e", "f">>) THEN "verb prefix"
                  ELSE IF has(<<"s", "u", "f", "f">>) THEN "verb suffix"
                  ELSE "verb"
          [] entry.simple_pos = <<"n">> ->
                  IF has(<<"s", "u", "f", "f">>) THEN "noun suffix" ELSE "noun"
          [] entry.simple_pos = <<"q", "u", "e", "s">> -> "question word"
          [] entry.simple_pos = <<"a", "d", "v">> -> "adverb"
          [] entry.simple_pos = <<"c", "o", "n", "j">> -> "conjunction"
          [] entry.simple_pos = <<"e", "x", "c", "l">> -> "exclamation"
          [] entry.simple_pos = S_sen -> "sentence"
          [] OTHER -> "unknown"

\* The keys of locale_strings appended to ans["tags"], in the code's order
TagLabels(entry) ==
    LET lab(t, k) == IF t \in entry.tags THEN <<k>> ELSE <<>>
    IN  lab(<<"s", "l", "a", "n", "g">>, "slang")
        \o lab(<<"r", "e", "g">>, "regional")
        \o lab(<<"a", "r", "c", "h", "a", "i", "c">>, "archaic")
        \o lab(S_hyp, "hypothetical")
        \o lab(S_extcan, "extracanonical")

\* ans["homonym"]: the last i of 1..9 with str(i) among the tags, 0 if none
Homonym(entry) ==
    LET H == {i \in 1..9 : <<DigitChar(i)>> \in entry.tags}
    IN  IF H = {} THEN 0 ELSE CHOOSE i \in H : \A j \in H : j <= i

\* The lines of render_entry that set and then may delete "inflections"
Inflections(entry, comps) ==
    LET has(t) == t \in entry.tags
        inhps  == <<"i", "n", "h", "p", "s">>
        inhpl  == <<"i", "n", "h", "p", "l">>
        label(k) == <<[kind |-> "label", key |-> k], Plain(<<":", " ">>)>>
    IN  IF entry.simple_pos # <<"n">> THEN <<>>
        ELSE IF has(inhps) /\ entry.components # <<>> THEN label("plural") \o comps
        ELSE IF has(inhpl) /\ entry.components # <<>> THEN label("singular") \o comps
        ELSE IF ~has(<<"s", "u", "f", "f">>) /\ ~has(inhpl)
            THEN IF has(<<"b", "o", "d", "y">>)
                     THEN <<Plain(<<"-", "D", "u", "'">>)>>
                 ELSE IF has(<<"b", "e", "i", "n", "g">>)
                     THEN <<Plain(<<"-", "p", "u", "'", ",", " ", "-", "m", "e", "y">>)>>
                 ELSE <<>>
        ELSE <<>>

\* derived_index[key] on the defaultdict: a missing key is inserted with []
Lookup(index, key) ==
    IF key \in DOMAIN index THEN index
    ELSE [k \in DOMAIN index \cup {key} |-> IF k = key THEN <<>> ELSE index[k]]

\* The view render_entry builds before it looks at the derived entries. A
\* key the code sets only on a condition is held as <<>> (homonym: as 0)
\* when the code leaves it unset; a key the code sets is never <<>>, since
\* fix_links returns at least one run of text. The letter, syllable and
\* morpheme splits and the wiki name come from the external analyzer
\* library and are left out of the view; id is the entry the view is of.
\* The texts render_entry hands to fix_links, in the order of the keys
\* definition, english, notes, examples, components, synonyms, antonyms,
\* see_also, source, hidden_notes; a key the code does not set has no text
FieldTexts(entry) ==
    LET locs == <<entry.definition, entry.notes, entry.examples>>
        loc  == [i \in 1..3 |->
                   IF i = 1 \/ DOMAIN locs[i] # {}
                   THEN get_unless_translated(locs[i]) ELSE Ok(<<>>)]
    IN  <<loc[1],
          IF language = EN THEN Ok(<<>>)
          ELSE IF EN \in DOMAIN entry.definition
               THEN Ok(entry.definition[EN]) ELSE Raised,
          loc[2], loc[3],
          Ok(entry.components), Ok(entry.synonyms), Ok(entry.antonyms),
          Ok(entry.see_also), Ok(entry.source), Ok(entry.hidden_notes)>>

\* fix_links of each text that is there
FixFields(texts) ==
    [i \in 1..Len(texts) |->
       IF ~texts[i].ok THEN Raised
       ELSE IF texts[i].v # <<>> THEN fix_links(texts[i].v) ELSE Ok(<<>>)]

\* The dict render_entry fills, from the rendered link and the fixed fields
ViewOf(entry, link, fixed) ==
    LET name   == entry.name
        has(t) == t \in entry.tags
        moved  == /\ entry.simple_pos = <<"n">>
                  /\ entry.components # <<>>
                  /\ has(<<"i", "n", "h", "p", "s">>) \/ has(<<"i", "n", "h", "p", "l">>)
    IN  IF ~link.ok \/ \E i \in 1..Len(fixed) : ~fixed[i].ok
        THEN Raised
        ELSE Ok([id            |-> entry.id,
                 name          |-> name,
                 url_name      |-> SubChar(name, " ", <<"+">>),
                 pos           |-> PosLabel(entry),
                 simple_pos    |-> IF \/ Head(name) = "-"
                                      \/ name[Len(name)] = "-"
                                      \/ name = <<"0">>
                                   THEN S_affix ELSE entry.simple_pos,
                 boqwi_tags    |-> entry.tags,
                 tags          |-> TagLabels(entry),
                 rendered_link |-> link.v,
                 homonym       |-> Homonym(entry),
                 definition    |-> fixed[1].v,
                 english       |-> fixed[2].v,
                 notes         |-> fixed[3].v,
                 examples      |-> fixed[4].v,
                 components    |-> IF moved THEN <<>> ELSE fixed[5].v,
                 inflections   |-> Inflections(entry, fixed[5].v),
                 synonyms      |-> fixed[6].v,
                 antonyms      |-> fixed[7].v,
                 see_also      |-> fixed[8].v,
                 source        |-> fixed[9].v,
                 hidden_notes  |-> fixed[10].v,
                 derived       |-> <<>>])

EntryView(entry) ==
    ViewOf(entry,
           render_link(entry.name, entry.simple_pos, SeqOfSet(entry.tags)),
           FixFields(FieldTexts(entry)))

\* render_entry(entry, include_derivs), reading and updating the index
\* given: the view (or that the call raised) and the index afterwards.
\* RenderDerived is the loop over derived_index[entry.id].
RECURSIVE render_entry(_, _, _), RenderDerived(_, _, _)

\* A loop that gives each derived view the derived views of its own entry
RECURSIVE RenderDerivedDeep(_, _, _)
RenderDerivedDeep(entries2, ans, index) ==
    IF entries2 = <<>> THEN [ok |-> TRUE, v |-> ans, index |-> index]
    ELSE IF ~EntryView(EntryById(Head(entries2))).ok
        THEN [ok |-> FALSE, index |-> index]
    ELSE RenderDerivedDeep(
             Tail(entries2),
             Append(ans,
                 [EntryView(EntryById(Head(entries2))).v EXCEPT !.derived =
                     [k \in 1..Len(Get(index, Head(entries2), <<>>)) |->
                         EntryView(EntryById(Get(index, Head(entries2), <<>>)[k])).v]]),
             index)

\* One round of the loop: r is render_entry(entry2, include_derivs=False)
DerivedNext(r, more, ans) ==
    IF ~r.ok THEN [ok |-> FALSE, index |-> r.index]
    ELSE RenderDerived(more, Append(ans, r.v), r.index)

RenderDerived(entries2, ans, index) ==
    IF entries2 = <<>> THEN [ok |-> TRUE, v |-> ans, index |-> index]
    ELSE DerivedNext(render_entry(EntryById(Head(entries2)), FALSE, index),
                     Tail(entries2), ans)

\* A render that uses up the lists of the index it has read
WithDerivedConsuming(ans, d) ==
    IF ~d.ok THEN [ok |-> FALSE, index |-> d.index]
    ELSE [ok |-> TRUE, v |-> [ans EXCEPT !.derived = d.v],
          index |-> [k \in DOMAIN d.index |-> <<>>]]

\* ans["derived"] = derived, when the loop has not raised
WithDerived(ans, d) ==
    IF ~d.ok THEN [ok |-> FALSE, index |-> d.index]
    ELSE [ok |-> TRUE, v |-> [ans EXCEPT !.derived = d.v], index |-> d.index]

\* The end of render_entry, from the view built so far
RenderTail(entry, include_derivs, index, ans) ==
    IF ~ans.ok THEN [ok |-> FALSE, index |-> index]
    ELSE IF ~include_derivs THEN [ok |-> TRUE, v |-> ans.v, index |-> index]
    ELSE WithDerived(ans.v, RenderDerived(Lookup(index, entry.id)[entry.id], <<>>,
                                          Lookup(index, entry.id)))

render_entry(entry, include_derivs, index) ==
    RenderTail(entry, include_derivs, index, EntryView(entry))

(***************************************************************************)
(* make_derived_index                                                      *)
(***************************************************************************)

\* An index built the wrong way round: the components listed under the entry
RECURSIVE AddComponentsReversed(_, _, _)
AddComponentsReversed(index, components, id) ==
    IF components = <<>> THEN index
    ELSE LET i1 == Lookup(index, id)
         IN  AddComponentsReversed([i1 EXCEPT ![id] = Append(@, Head(components))],
                                   Tail(components), id)

\* The two appends of the inner loop, for the components of one entry
RECURSIVE AddComponents(_, _, _)
AddComponents(index, components, id) ==
    IF components = <<>> THEN index
    ELSE LET c  == Head(components)
             i1 == Lookup(index, c)
             i2 == [i1 EXCEPT ![c] = Append(@, id)]
             c1 == c \o <<":", "1">>
             i3 == IF Count(c, ":") = 1
                   THEN LET j == Lookup(i2, c1) IN [j EXCEPT ![c1] = Append(@, id)]
                   ELSE i2
         IN  AddComponents(i3, Tail(components), id)

\* The loop over dictionary.entries.values(); the import fails when
\* get_links raises
RECURSIVE IndexEntries(_, _)
IndexEntries(entries, index) ==
    IF entries = <<>> THEN Ok(index)
    ELSE LET entry == Head(entries)
         IN  IF S_sen \in entry.tags THEN IndexEntries(Tail(entries), index)
             ELSE LET links == get_links(entry.components)
                  IN  IF ~links.ok THEN Raised
                      ELSE IndexEntries(Tail(entries),
                                        AddComponents(index, links.v, entry.id))

make_derived_index(entries) == IndexEntries(entries, NoKeys)

(***************************************************************************)
(* execute_query                                                           *)
(***************************************************************************)

\* re.sub(r"\s{2,}", " ", query), the space being the model's whitespace
RECURSIVE Squeeze(_)
Squeeze(text) ==
    IF Len(text) < 2 THEN text
    ELSE IF text[1] = " " /\ text[2] = " " THEN Squeeze(Tail(text))
    ELSE <<Head(text)>> \o Squeeze(Tail(text))

\* str.strip()
RECURSIVE Strip(_)
Strip(text) ==
    IF text # <<>> /\ Head(text) = " " THEN Strip(Tail(text))
    ELSE IF text # <<>> /\ text[Len(text)] = " "
        THEN Strip(SubSeq(text, 1, Len(text) - 1))
    ELSE text

\* The four normalisation lines at the head of execute_query. The typographic
\* quotes the first two replace are not among the model's characters.
NormalizeQuery(q) ==
    Strip(Squeeze(q))

\* part[:part.index(":")]
PartName(part) == SubSeq(part, 1, Index(part, ":") - 1)

\* [part for a in analyses for part in a["PARTS"]]
RECURSIVE FlattenParts(_)
FlattenParts(analyses) ==
    IF analyses = <<>> THEN <<>>
    ELSE Head(analyses).PARTS \o FlattenParts(Tail(analyses))

\* The first occurrence of each element, in order
RECURSIVE Dedup(_, _)
Dedup(list, seen) ==
    IF list = <<>> THEN <<>>
    ELSE IF Head(list) \in seen THEN Dedup(Tail(list), seen)
    ELSE <<Head(list)>> \o Dedup(Tail(list), seen \cup {Head(list)})

\* list.sort(key=...): a stable insertion sort of [k, v] pairs by k
RECURSIVE InsertByKey(_, _)
InsertByKey(sorted, x) ==
    IF sorted = <<>> THEN <<x>>
    ELSE IF x.k < Head(sorted).k THEN <<x>> \o sorted
    ELSE <<Head(sorted)>> \o InsertByKey(Tail(sorted), x)

RECURSIVE SortByKey(_)
SortByKey(list) ==
    IF list = <<>> THEN <<>>
    ELSE InsertByKey(SortByKey(SubSeq(list, 1, Len(list) - 1)), list[Len(list)])

fix_analysis_parts(analyses) ==
    LET flat   == FlattenParts(analyses)
        names  == [i \in 1..Len(flat) |-> PartName(flat[i])]
        parts  == Dedup(flat, {})
        keyed  == [i \in 1..Len(parts) |->
                      [k |-> Index(names, PartName(parts[i])), v |-> parts[i]]]
        sorted == SortByKey(keyed)
    IN  [i \in 1..Len(sorted) |-> sorted[i].v]

\* yajwiz.analyze(word): the analyses the external analyzer has for word
analyze(word) == IF word \in DOMAIN analyzer THEN analyzer[word] ELSE <<>>

\* The loop over the words of the query
RECURSIVE AnalyzeWords(_)
AnalyzeWords(words) ==
    IF words = <<>> THEN <<>>
    ELSE analyze(fix_xifan(Head(words))) \o AnalyzeWords(Tail(words))

\* The parts of both word-analysis passes, in the order they are collected
AnalysisParts(q) ==
    LET whole == analyze(fix_xifan(q))
        p1    == IF whole # <<>> THEN fix_analysis_parts(whole) ELSE <<>>
        words == IF ~InSeq(":", q) THEN AnalyzeWords(Split(q, " ")) ELSE <<>>
        p2    == IF words # <<>> THEN fix_analysis_parts(words) ELSE <<>>
    IN  p1 \o p2

\* The loop "for part in parts" of execute_query: dictionary.entries[part]
\* raises for a part that is no key of the store
RECURSIVE RenderParts(_, _, _, _)

\* A loop that forgets which parts it has emitted
PartNextForgetful(r, part, more, included, ans) ==
    IF ~r.ok THEN [ok |-> FALSE, index |-> r.index]
    ELSE RenderParts(more, included, Append(ans, r.v), r.index)

\* One round of the loop: r is render_entry(dictionary.entries[part])
PartNext(r, part, more, included, ans) ==
    IF ~r.ok THEN [ok |-> FALSE, index |-> r.index]
    ELSE RenderParts(more, included \cup {part}, Append(ans, r.v), r.index)

RenderParts(parts, included, ans, index) ==
    IF parts = <<>>
        THEN [ok |-> TRUE, ans |-> ans, included |-> included, index |-> index]
    ELSE IF Head(parts) \in included
        THEN RenderParts(Tail(parts), included, ans, index)
    ELSE IF Head(parts) \notin StoreIds
        THEN [ok |-> FALSE, index |-> index]
    ELSE PartNext(render_entry(EntryById(Head(parts)), TRUE, index),
                  Head(parts), Tail(parts), included, ans)

\* The loop over dictionary.entries.items() of dsl_query
RECURSIVE DslLoop(_, _, _, _, _)

\* ans.append(self.render_entry(entry)): r is the rendering
DslNext(r, more, query_function, included, ans) ==
    IF ~r.ok THEN [ok |-> FALSE, index |-> r.index]
    ELSE DslLoop(more, query_function, included, Append(ans, r.v), r.index)

DslLoop(entries, query_function, included, ans, index) ==
    IF entries = <<>> THEN [ok |-> TRUE, ans |-> ans, index |-> index]
    ELSE IF Head(entries).id \notin included /\ Matches(query_function, Head(entries))
        THEN DslNext(render_entry(Head(entries), TRUE, index),
                     Tail(entries), query_function, included, ans)
    ELSE DslLoop(Tail(entries), query_function, included, ans, index)

dsl_query(q, included, index) ==
    DslLoop(dictionary, parse_or(Tokenize(q)).f, included, <<>>, index)

\* return ans: the views of the analysis passes, then those of dsl_query
QueryAnswer(a, d) ==
    IF ~d.ok THEN [ok |-> FALSE, index |-> d.index]
    ELSE [ok     |-> TRUE,
          ans    |-> a.ans \o d.ans,
          nparts |-> Len(a.ans),
          index  |-> d.index]

\* ans += self.dsl_query(self.query, included), a being the outcome of the
\* loop over the analysis parts
AfterParts(q, a) ==
    IF ~a.ok THEN [ok |-> FALSE, index |-> a.index]
    ELSE QueryAnswer(a, dsl_query(q, a.included, a.index))

\* execute_query from the normalised query on
RunQuery(q, index) ==
    AfterParts(q, RenderParts(AnalysisParts(q), {}, <<>>, index))

\* execute_query on self.query = q0 with the index given: whether it
\* returned, the list it returned, how many of its views come from the
\* word-analysis passes, and the index afterwards
execute_query(q0, index) ==
    IF q0 = <<>> THEN [ok |-> TRUE, ans |-> <<>>, nparts |-> 0, index |-> index]
    ELSE RunQuery(NormalizeQuery(q0), index)

(***************************************************************************)
(* The inputs: a small lexicon, the analyzer's answers, the queries        *)
(***************************************************************************)

\* The longest store of the model
MaxStore == 2

W_Soj   == <<"S", "o", "j">>
W_Sojna == <<"S", "o", "j", "n", "a">>
W_Qo    == <<"Q", "o">>
W_ta    == <<"t", "a">>

Id_Soj   == <<"S", "o", "j", ":", "n", ":", "1">>
Id_Sojna == <<"S", "o", "j", "n", "a", ":", "n">>
Id_Qo    == <<"Q", "o", ":", "n">>
Id_ta    == <<"t", "a", ":", "v">>
Id_sen   == <<"S", "o", "j", " ", "t", "a", ":", "s", "e", "n">>

S_nodict == <<"n", "o", "d", "i", "c", "t">>

BlankEntry ==
    [id |-> <<>>, name |-> <<>>, simple_pos |-> <<>>, tags |-> {},
     definition |-> NoKeys, notes |-> NoKeys, examples |-> NoKeys,
     search_tags |-> NoKeys, components |-> <<>>, synonyms |-> <<>>,
     antonyms |-> <<>>, see_also |-> <<>>, source |-> <<>>,
     hidden_notes |-> <<>>]

\* Soj (n, homophone 1), whose components name Sojna: the two entries refer
\* to each other
E_Soj ==
    [BlankEntry EXCEPT
        !.id = Id_Soj, !.name = W_Soj, !.simple_pos = <<"n">>, !.tags = {<<"1">>},
        !.definition = (EN :> <<"f", "o", "o", "d">>) @@ (DE :> <<"e", "s", "s", "e", "n">>),
        !.components = <<"{", "S", "o", "j", "n", "a", ":", "n", "}">>]

\* Sojna (n), derived from Soj by a token without homophone number; it has
\* no German definition
E_Sojna ==
    [BlankEntry EXCEPT
        !.id = Id_Sojna, !.name = W_Sojna, !.simple_pos = <<"n">>,
        !.definition = (EN :> <<"d", "i", "s", "h">>),
        !.search_tags = (EN :> <<<<"f", "o", "o", "d">>>>),
        !.components = <<"{", "S", "o", "j", ":", "n", "}">>]

\* Qo (n), kept out of the printed dictionary; its components refer to Qo
\* itself and, with a hidden homophone number, to Soj
E_Qo ==
    [BlankEntry EXCEPT
        !.id = Id_Qo, !.name = W_Qo, !.simple_pos = <<"n">>, !.tags = {S_nodict},
        !.definition = (EN :> <<"n", "o">>) @@ (DE :> <<"n", "e", "i", "n">>),
        !.components = <<"{", "Q", "o", ":", "n", "}", " ", "{", "S", "o", "j", ":", "n", ":", "1", "h", "}">>]

\* ta (v), whose notes open a token that is never closed
E_ta ==
    [BlankEntry EXCEPT
        !.id = Id_ta, !.name = W_ta, !.simple_pos = <<"v">>, !.tags = {<<"t", "_", "c">>},
        !.definition = (EN :> <<"d", "o">>) @@ (DE :> <<"t", "u", "n">>),
        !.notes = (EN :> <<"s", "e", "e", " ", "{", "S", "o", "j">>)]

\* A sentence, whose components are not indexed; it holds nolink tokens of
\* an entry type, of type src and of type url
E_sen ==
    [BlankEntry EXCEPT
        !.id = Id_sen, !.name = <<"S", "o", "j", " ", "t", "a">>,
        !.simple_pos = S_sen, !.tags = {S_sen},
        !.definition = (EN :> <<"e", "a", "t">>) @@ (DE :> S_TRANSLATE),
        !.components = <<"{", "S", "o", "j", ":", "n", ":", "1", "}", " ",
                         "{", "t", "a", ":", "v", ":", "n", "o", "l", "i", "n", "k", "}">>,
        !.see_also = <<"{", "S", "o", "j", ":", "n", ":", "1", ",", "n", "o", "l", "i", "n", "k", "}">>,
        !.source = <<"{", "T", "K", "D", ":", "s", "r", "c", ":", "n", "o", "l", "i", "n", "k", "}", " ", "{", "w", "e", "b", ":", "u", "r", "l", ":", "n", "o", "l", "i", "n", "k", "}">>]

Pool == <<E_Soj, E_Sojna, E_Qo, E_ta, E_sen>>

\* The stores: the entries of Pool at an increasing choice of positions
RECURSIVE PicksFrom(_, _)
PicksFrom(from, n) ==
    IF n = 0 THEN {<<>>}
    ELSE UNION {{<<i>> \o p : p \in PicksFrom(i + 1, n - 1)} : i \in from..Len(Pool)}

Stores ==
    {[k \in 1..Len(p) |-> Pool[p[k]]] :
        p \in UNION {PicksFrom(1, n) : n \in 1..MaxStore}}

\* What the analyzer answers: Soj is a word, Sojna a word of two
\* components, ta a word; every other text has no analysis
Analyses ==
    (W_Soj :> <<[PARTS |-> <<Id_Soj>>]>>)
    @@ (W_Sojna :> <<[PARTS |-> <<Id_Sojna>>], [PARTS |-> <<Id_Soj, Id_Sojna>>]>>)
    @@ (W_ta :> <<[PARTS |-> <<Id_ta>>]>>)

\* The terms the queries are made of
Q_soj      == <<"s", "o", "j">>
Q_sojna    == <<"s", "o", "j", "n", "a">>
Q_ta       == <<"t", "a">>
Q_food     == <<"f", "o", "o", "d">>
Q_pos_n    == <<"p", "o", "s", ":", "n">>
Q_pos_nod  == <<"p", "o", "s", ":", "n", "o", "d", "i", "c", "t">>
Q_de_e     == <<"d", "e", ":", "e">>
Q_tlh_bad  == <<"t", "l", "h", ":", "[">>
Q_unreg    == <<"z", "z", ":", "o">>

Sp == <<" ">>

Q_or(a, b)  == a \o Sp \o T_OR \o Sp \o b
Q_and(a, b) == a \o Sp \o T_AND \o Sp \o b
Q_paren(q)  == <<"(">> \o q \o <<")">>
Q_not(a)    == T_NOT \o Sp \o a

\* The pairs of terms joined by OR
OrPairs ==
    {<<Q_soj, Q_pos_n>>, <<Q_pos_n, Q_soj>>, <<Q_de_e, Q_pos_n>>,
     <<Q_pos_n, Q_de_e>>, <<Q_tlh_bad, Q_pos_n>>, <<Q_unreg, Q_pos_n>>}

\* The pairs of terms joined by AND, bare and in parentheses
AndPairs ==
    {<<Q_soj, Q_pos_n>>, <<Q_pos_n, Q_de_e>>, <<Q_de_e, Q_soj>>,
     <<Q_sojna, Q_food>>}

\* The terms negated
NotTerms == {Q_soj, Q_de_e, Q_unreg}

Q_not_nodict == Q_and(Q_not(Q_pos_nod), Q_pos_n)

\* The values a locale map holds for a locale: an empty text, a text, and
\* the two markers of a pending translation
LocaleValues ==
    {<<>>, <<"n", "o">>, S_TRANSLATE, S_AUTOTRANSLATED \o <<" ", "n", "o">>}

\* The locale maps handed to get_unless_translated: each locale absent or
\* present, the English value never a marker
LocaleMaps ==
    {d \in UNION {[K -> LocaleValues] : K \in SUBSET Locales} :
        EN \in DOMAIN d => d[EN] \in {<<>>, <<"n", "o">>}}

Queries ==
    {<<>>, Q_soj, Q_sojna, Q_ta, Q_pos_n, Q_de_e, Q_tlh_bad, Q_unreg,
     <<" ", "s", "o", "j", " ", " ", "t", "a">>, Q_not_nodict}
    \cup {Q_or(p[1], p[2]) : p \in OrPairs}
    \cup {Q_and(p[1], p[2]) : p \in AndPairs}
    \cup {Q_paren(Q_and(p[1], p[2])) : p \in AndPairs}
    \cup {Q_not(a) : a \in NotTerms}

(***************************************************************************)
(* The program                                                             *)
(***************************************************************************)

\* The module import: the store is loaded, make_derived_index runs (and the
\* import fails if it raises), and the process serves one language in one
\* link format.
Init ==
    /\ dictionary \in Stores
    /\ make_derived_index(dictionary).ok
    /\ derived_index = make_derived_index(dictionary).v
    /\ analyzer = Analyses
    /\ language \in Locales
    /\ link_format \in {"html", "latex"}
    /\ call = [fn |-> "import"]
    /\ result = [ok |-> TRUE]

\* The call c has returned or raised r: the caller holds the outcome, and
\* the module-level index is what the call left
Return(c, r) ==
    /\ call' = c
    /\ result' = [i \in DOMAIN r \ {"index"} |-> r[i]]
    /\ derived_index' = r.index
    /\ UNCHANGED <<dictionary, analyzer, language, link_format>>

\* dictionary_query(q, language, link_format)
ExecuteQuery(q) ==
    Return([fn |-> "execute_query", query |-> q], execute_query(q, derived_index))

\* A direct call of render_entry on the i-th entry of the store
RenderEntry(i) ==
    Return([fn |-> "render_entry", entry |-> dictionary[i].id],
           render_entry(dictionary[i], TRUE, derived_index))

\* A direct call of get_unless_translated on a locale map
GetUnlessTranslated(d) ==
    /\ call' = [fn |-> "get_unless_translated", d |-> d]
    /\ result' = get_unless_translated(d)
    /\ UNCHANGED <<dictionary, derived_index, analyzer, language, link_format>>

Next ==
    \/ \E q \in Queries : ExecuteQuery(q)
    \/ \E i \in 1..Len(dictionary) : RenderEntry(i)
    \/ \E d \in LocaleMaps : GetUnlessTranslated(d)

Spec == Init /\ [][Next]_vars

(***************************************************************************)
(* book/dictionary.py: the functions of the query engine called one by     *)
(* one, on a store that holds two homonyms                                 *)
(***************************************************************************)

\* The longest text handed to fix_xifan and the longest token list handed
\* to parse_or
MaxXifanLen == 3
MaxTokens   == 3

\* The letters of the texts: the letters fix_xifan rewrites or looks at,
\* and one it does not
XifanLetters == {"h", "c", "g", "n", "l", "t", "a"}

XifanTexts == UNION {[1..n -> XifanLetters] : n \in 0..MaxXifanLen}

\* The tokens of the token lists: parentheses, operators, the empty token
\* the tokenizer leaves around parentheses, and a word
ParserTokens == {<<"(">>, <<")">>, T_OR, T_AND, T_NOT, <<>>, Q_ta}

TokenLists == UNION {[1..n -> ParserTokens] : n \in 0..MaxTokens}

\* The noun Soj with no components, the verb ta with no notes, and a second
\* noun Soj
Id_Soj2 == <<"S", "o", "j", ":", "n", ":", "2">>

E_Soj1 == [E_Soj EXCEPT !.components = <<>>]

E_ta1 == [E_ta EXCEPT !.notes = NoKeys]

E_Soj2 ==
    [E_Soj1 EXCEPT
        !.id = Id_Soj2, !.tags = {<<"2">>},
        !.definition = (EN :> <<"m", "e", "a", "l">>)]

HomonymStore == <<E_Soj1, E_ta1, E_Soj2>>

\* An analyzer that reads the phrase `Soj ta` as the first noun Soj and the
\* verb ta, and the word Soj alone as the second noun Soj
PhraseAnalyses ==
    (<<"S", "o", "j", " ", "t", "a">> :> <<[PARTS |-> <<Id_Soj, Id_ta>>]>>)
    @@ (W_Soj :> <<[PARTS |-> <<Id_Soj2>>]>>)
    @@ (W_ta :> <<[PARTS |-> <<Id_ta>>]>>)

\* The terms the precedence queries are made of: a word, two fields, a
\* field whose pattern raises, and an operator that is not registered
Terms == {Q_soj, Q_ta, Q_pos_n, Q_tlh_bad, Q_unreg}

Q_juxt(a, b)    == a \o Sp \o b
Q_notcall(a)    == T_NOT \o Q_paren(a)
Q_notspaced(a)  == T_NOT \o Sp \o Q_paren(a)

Q_soj_ta == Q_juxt(Q_soj, Q_ta)

FnQueries ==
    {Q_soj_ta,
     Q_or(Q_juxt(Q_soj, Q_pos_n), Q_ta),
     Q_or(Q_paren(Q_and(Q_soj, Q_pos_n)), Q_ta),
     Q_juxt(Q_not(Q_soj), Q_pos_n),
     Q_and(Q_paren(Q_not(Q_soj)), Q_pos_n),
     Q_notcall(Q_pos_n),
     Q_notspaced(Q_pos_n)}

FnInit ==
    /\ dictionary = HomonymStore
    /\ make_derived_index(dictionary).ok
    /\ derived_index = make_derived_index(dictionary).v
    /\ analyzer = PhraseAnalyses
    /\ language = EN
    /\ link_format = "html"
    /\ call = [fn |-> "import"]
    /\ result = [ok |-> TRUE]

\* A direct call of fix_xifan
FixXifan(text) ==
    /\ call' = [fn |-> "fix_xifan", text |-> text]
    /\ result' = Ok(fix_xifan(text))
    /\ UNCHANGED <<dictionary, derived_index, analyzer, language, link_format>>

\* The call parse_or(parts) of dsl_query: the closure it returns and the
\* tokens it leaves in parts
ParseOr(parts) ==
    /\ call' = [fn |-> "parse_or", parts |-> parts]
    /\ result' = Ok(parse_or(parts))
    /\ UNCHANGED <<dictionary, derived_index, analyzer, language, link_format>>

FnNext ==
    \/ \E text \in XifanTexts : FixXifan(text)
    \/ \E parts \in TokenLists : ParseOr(parts)
    \/ \E q \in FnQueries : ExecuteQuery(q)

FnSpec == FnInit /\ [][FnNext]_vars

(***************************************************************************)
(* build/definition_parser.py: the definition parser                       *)
(***************************************************************************)

\* text.endswith(suffix)
EndsWith(text, suffix) ==
    /\ Len(suffix) <= Len(text)
    /\ SubSeq(text, Len(text) - Len(suffix) + 1, Len(text)) = suffix

\* any(text.startswith(p) for p in prefixes)
StartsWithAny(text, prefixes) == \E p \in prefixes : StartsWith(text, p)

\* sep.join(list) for a separator of any length
RECURSIVE JoinWith(_, _)
JoinWith(list, sep) ==
    IF list = <<>> THEN <<>>
    ELSE IF Len(list) = 1 THEN list[1]
    ELSE list[1] \o sep \o JoinWith(Tail(list), sep)

\* DefinitionPart(text=text): sort_keyword None is the empty text
DefinitionPart(text) == [text |-> text, sort_keyword |-> <<>>]

\* ParsedDefinition(...): global_parenthetical None is the empty text (the
\* parser never sets it to an empty text)
ParsedDefinition(parts, global_parenthetical, raw_text, no_permute, dedup, etc_suffix) ==
    [parts                |-> parts,
     global_parenthetical |-> global_parenthetical,
     raw_text             |-> raw_text,
     no_permute           |-> no_permute,
     dedup                |-> dedup,
     etc_suffix           |-> etc_suffix]

\* The part appended when current.strip() is not empty
WithPart(parts, current) ==
    IF Strip(current) # <<>> THEN Append(parts, Strip(current)) ELSE parts

\* The character loop of split_on_delimiters
RECURSIVE SplitScan(_, _, _, _, _)
SplitScan(text, delimiters, current, depth, parts) ==
    IF text = <<>> THEN WithPart(parts, current)
    ELSE IF Head(text) = "("
        THEN SplitScan(Tail(text), delimiters, Append(current, "("), depth + 1, parts)
    ELSE IF Head(text) = ")"
        THEN SplitScan(Tail(text), delimiters, Append(current, ")"), depth - 1, parts)
    ELSE IF Head(text) \in delimiters /\ depth = 0
        THEN SplitScan(Tail(text), delimiters, <<>>, depth, WithPart(parts, current))
    ELSE SplitScan(Tail(text), delimiters, Append(current, Head(text)), depth, parts)

split_on_delimiters(text, delimiters) == SplitScan(text, delimiters, <<>>, 0, <<>>)

list_prepositions ==
    {<<"f", "o", "r">>, <<"o", "f">>, <<"w", "i", "t", "h">>, <<"a", "b", "o", "u", "t">>, <<"i", "n", "c", "l", "u", "d", "i", "n", "g">>, <<"s", "u", "c", "h", " ", "a", "s">>, <<"l", "i", "k", "e">>}

\* MaxShortPart: a part of one word is short when it has fewer characters
MaxShortPart == 10

looks_like_item_list(parts) ==
    IF Len(parts) <= 1 THEN FALSE
    ELSE LET short_parts ==
                 Cardinality({i \in 1..Len(parts) :
                                 /\ Len(SplitWords(parts[i])) = 1
                                 /\ Len(parts[i]) < MaxShortPart})
         IN  \/ /\ \E prep \in list_prepositions :
                       Contains(Lower(parts[1]), <<" ">> \o prep \o <<" ">>)
                /\ short_parts >= Len(parts) - 1
             \/ \E i \in 1..Len(parts) : Contains(Lower(parts[i]), <<"e", "t", "c">>)

\* The backward scan of extract_trailing_parenthetical for the parenthesis
\* that matches the last one; i is a 1-based position
RECURSIVE ParenScan(_, _, _)
ParenScan(text, i, depth) ==
    IF i < 1 THEN [before |-> text, paren |-> <<>>]
    ELSE IF text[i] = ")" THEN ParenScan(text, i - 1, depth + 1)
    ELSE IF text[i] = "("
        THEN IF depth - 1 = 0
             THEN [before |-> Strip(SubSeq(text, 1, i - 1)),
                   paren  |-> Strip(SubSeq(text, i + 1, Len(text) - 1))]
             ELSE ParenScan(text, i - 1, depth - 1)
    ELSE ParenScan(text, i - 1, depth)

\* extract_trailing_parenthetical(text): the parenthetical None is the empty
\* text (the callers test it for truth only)
TrailingOfStripped(text) ==
    IF ~EndsWith(text, <<")">>) THEN [before |-> text, paren |-> <<>>]
    ELSE ParenScan(text, Len(text), 0)

extract_trailing_parenthetical(text) == TrailingOfStripped(Strip(text))

global_indicators ==
    {<<"e", ".", "g", ".", ",">>, <<"i", ".", "e", ".", ",">>, <<"u", "s", "e", "d", " ", "i", "n">>, <<"r", "e", "f", "e", "r", "r", "i", "n", "g", " ", "t", "o">>, <<"f", "o", "r", " ", "e", "x", "a", "m", "p", "l", "e">>,
     <<"i", "n", " ", "m", "a", "t", "h">>, <<"i", "n", " ", "p", "h", "y", "s", "i", "c", "s">>, <<"a", "s", "t", "r", "o", "n", "o", "m", "y">>, <<"e", "c", "o", "n", "o", "m", "i", "c", "s">>,
     <<"t", "r", "i", "g", "o", "n", "o", "m", "e", "t", "r", "y">>, <<"g", "e", "n", "e", "r", "a", "l", " ", "t", "e", "r", "m">>, <<"v", "e", "r", "b", " ", "t", "y", "p", "e">>}

\* A check that looks at the last part only
is_global_parenthetical_last_only(parts, last_paren) ==
    IF last_paren = <<>> THEN FALSE
    ELSE IF Len(parts) <= 1 THEN FALSE
    ELSE LET base_last == Strip(extract_trailing_parenthetical(parts[Len(parts)]).before)
         IN  \/ base_last # <<>> /\ ~InSeq(" ", base_last)
             \/ \E indicator \in global_indicators :
                    Contains(Lower(last_paren), indicator)

is_global_parenthetical(parts, last_paren) ==
    IF last_paren = <<>> THEN FALSE
    ELSE IF Len(parts) <= 1 THEN FALSE
    ELSE IF \E i \in 1..(Len(parts) - 1) : InSeq("(", parts[i]) /\ InSeq(")", parts[i])
        THEN FALSE
    ELSE LET base_last == Strip(extract_trailing_parenthetical(parts[Len(parts)]).before)
         IN  \/ base_last # <<>> /\ ~InSeq(" ", base_last)
             \/ \E indicator \in global_indicators :
                    Contains(Lower(last_paren), indicator)

\* The five prefix tables of is_guard_case, in the order they are tried
GuardBirds ==
    {<<"b", "i", "r", "d", " ">>, <<"a", " ", "b", "i", "r", "d", " ">>, <<"a", " ", "c", "r", "e", "a", "t", "u", "r", "e", " ">>, <<"b", "i", "r", "d", " ", "w", "i", "t", "h", " ">>, <<"b", "i", "r", "d", " ", "c", "a", "p", "a", "b", "l", "e", " ">>,
     <<"a", " ", "k", "i", "n", "d", " ", "o", "f", " ", "b", "i", "r", "d">>}
GuardSink == {<<"s", "i", "n", "k", " ", "f", "o", "r", " ">>}
GuardExclamations ==
    {<<"g", "o", "o", "d", " ", "n", "e", "w", "s", ",">>, <<"e", "x", "p", "l", "e", "t", "i", "v", "e", ",">>, <<"s", "t", "o", "p", ",">>, <<"u", "h", ",">>, <<"w", "e", "l", "l", ",">>}
GuardEnds == {<<"e", "n", "d", " ", "(", "o", "f", " ", "s", "t", "i", "c", "k", ",">>, <<"e", "n", "d", " ", "(", "o", "f", " ", "r", "o", "p", "e", ",">>, <<"e", "n", "d", " ", "(", "o", "f", " ", "h", "a", "n", "d", "l", "e", ",">>}
GuardRedundant ==
    {<<"h", "a", "v", "e", " ", "a", " ", "t", "a", "t", "t", "o", "o">>, <<"b", "e", " ", "p", "o", "s", "i", "t", "i", "v", "e", "l", "y", " ", "c", "h", "a", "r", "g", "e", "d">>, <<"b", "e", " ", "n", "e", "g", "a", "t", "i", "v", "e", "l", "y", " ", "c", "h", "a", "r", "g", "e", "d">>}

\* A guard check that does not know the sinks
is_guard_case_no_sink(text) ==
    \/ StartsWithAny(Lower(text), GuardBirds)
    \/ StartsWithAny(Lower(text), GuardExclamations)
    \/ StartsWithAny(Lower(text), GuardEnds)
    \/ StartsWithAny(Lower(text), GuardRedundant)

is_guard_case(text) ==
    \/ StartsWithAny(Lower(text), GuardBirds)
    \/ StartsWithAny(Lower(text), GuardSink)
    \/ StartsWithAny(Lower(text), GuardExclamations)
    \/ StartsWithAny(Lower(text), GuardEnds)
    \/ StartsWithAny(Lower(text), GuardRedundant)

dedup_words == {<<"b", "e", " ", "c", "o", "o", "p", "e", "r", "a", "t", "i", "v", "e">>, <<"c", "o", "o", "p", "e", "r", "a", "t", "e">>, <<"d", "i", "e">>, <<"d", "i", "c", "e">>}

skip_prefixes ==
    {<<"b", "e", " ">>, <<"i", "n", " ">>, <<"a", " ">>, <<"a", "n", " ">>, <<"t", "h", "e", " ">>, <<"u", "n", "d", "e", "r">>, <<"a", "r", "e", "a", " ">>, <<"d", "i", "s">>}

\* BeVerbPrefix, PlainPrefix: the numbers of leading characters should_dedup
\* compares, for be-verbs and for the others
BeVerbPrefix == 7
PlainPrefix == 3

SamePrefix(p0, p1, n) ==
    Len(p0) >= n /\ Len(p1) >= n /\ SubSeq(p0, 1, n) = SubSeq(p1, 1, n)

\* The body of should_dedup on the two lowercased, stripped parts
SimilarParts(p0, p1, is_be_verb) ==
    \/ StartsWithAny(p0, dedup_words)
    \/ IF is_be_verb \/ StartsWith(p0, <<"b", "e", " ">>)
       THEN SamePrefix(p0, p1, BeVerbPrefix)
       ELSE ~StartsWithAny(p0, skip_prefixes) /\ SamePrefix(p0, p1, PlainPrefix)

should_dedup(parts, is_be_verb) ==
    IF Len(parts) # 2 THEN FALSE
    ELSE SimilarParts(Strip(Lower(parts[1])), Strip(Lower(parts[2])), is_be_verb)

\* A loop that splits at commas inside semicolon sections too
RECURSIVE RawPartsCommasToo(_, _)
RawPartsCommasToo(semicolon_parts, i) ==
    IF i > Len(semicolon_parts) THEN <<>>
    ELSE LET comma_parts == split_on_delimiters(semicolon_parts[i], {","})
         IN  (IF \/ Len(comma_parts) <= 1
                 \/ looks_like_item_list(comma_parts)
              THEN <<semicolon_parts[i]>>
              ELSE comma_parts)
             \o RawPartsCommasToo(semicolon_parts, i + 1)

\* The loop of parse_definition over the semicolon sections, from the i-th
RECURSIVE RawParts(_, _)
RawParts(semicolon_parts, i) ==
    IF i > Len(semicolon_parts) THEN <<>>
    ELSE LET comma_parts == split_on_delimiters(semicolon_parts[i], {","})
         IN  (IF \/ Len(comma_parts) <= 1
                 \/ looks_like_item_list(comma_parts)
                 \/ Len(semicolon_parts) > 1
              THEN <<semicolon_parts[i]>>
              ELSE comma_parts)
             \o RawParts(semicolon_parts, i + 1)

\* Parts that keep the blank texts
PartsOfUnfiltered(raw_parts) ==
    [i \in 1..Len(raw_parts) |-> [text |-> raw_parts[i], sort_keyword |-> <<>>]]

\* The parts of parse_definition's last return: those of raw_parts that are
\* not blank, each with its sort keyword
PartsOf(raw_parts) ==
    LET kept == SelectSeq(raw_parts, LAMBDA p : Strip(p) # <<>>)
    IN  [i \in 1..Len(kept) |->
            [text         |-> kept[i],
             sort_keyword |-> IF Contains(Lower(kept[i]), <<"t", "r", "a", "v", "e", "l", " ", "o", "n", " ", "a", " ", "m", "i", "s", "s", "i", "o", "n">>)
                              THEN <<"m", "i", "s", "s", "i", "o", "n">> ELSE <<>>]]

PartTexts(parts) == [i \in 1..Len(parts) |-> parts[i].text]

\* The last return of parse_definition
ParsedParts(text, parts, global_paren, is_be_verb, etc_suffix) ==
    ParsedDefinition(parts, global_paren, text, FALSE,
                     should_dedup(PartTexts(parts), is_be_verb), etc_suffix)

\* parse_definition from the trailing parenthetical of the last part on
ParseMulti(text, raw_parts, last, is_be_verb, etc_suffix) ==
    IF last.paren # <<>> /\ is_global_parenthetical(raw_parts, last.paren)
    THEN ParsedParts(text,
                     PartsOf([raw_parts EXCEPT ![Len(raw_parts)] = last.before]),
                     last.paren, is_be_verb, etc_suffix)
    ELSE ParsedParts(text, PartsOf(raw_parts), <<>>, is_be_verb, etc_suffix)

\* parse_definition once raw_parts is known
ParseParts(text, raw_parts, is_be_verb, etc_suffix) ==
    IF Len(raw_parts) = 0
        THEN ParsedDefinition(<<>>, <<>>, text, FALSE, FALSE, FALSE)
    ELSE IF Len(raw_parts) = 1
        THEN ParsedDefinition(<<DefinitionPart(raw_parts[1])>>, <<>>, text,
                              FALSE, FALSE, FALSE)
    ELSE ParseMulti(text, raw_parts,
                    extract_trailing_parenthetical(raw_parts[Len(raw_parts)]),
                    is_be_verb, etc_suffix)

\* parse_definition on the stripped text, from the guard check on
ParseStripped(text, is_be_verb, etc_suffix) ==
    IF is_guard_case(text)
        THEN ParsedDefinition(<<DefinitionPart(text)>>, <<>>, text,
                              TRUE, FALSE, etc_suffix)
    ELSE IF /\ EndsWith(text, <<".">>) \/ EndsWith(text, <<"!">>) \/ EndsWith(text, <<"?">>)
            /\ ~InSeq(",", text) /\ ~InSeq(";", text)
        THEN ParsedDefinition(<<DefinitionPart(text)>>, <<>>, text,
                              FALSE, FALSE, FALSE)
    ELSE IF StartsWith(text, <<"{">>) /\ EndsWith(text, <<"}">>)
        THEN ParsedDefinition(<<DefinitionPart(text)>>, <<>>, text,
                              FALSE, FALSE, FALSE)
    ELSE ParseParts(text, RawParts(split_on_delimiters(text, {";"}), 1),
                    is_be_verb, etc_suffix)

S_is == <<"i", "s">>

\* EtcSuffixes: text.rstrip().endswith(', etc.') or ...endswith(' etc.')
EtcSuffixes == {<<",", " ", "e", "t", "c", ".">>, <<" ", "e", "t", "c", ".">>}

HasEtcSuffix(text) == \E s \in EtcSuffixes : EndsWith(text, s)

\* parse_definition(text, pos_subtype); pos_subtype None is the empty text
parse_definition(text, pos_subtype) ==
    IF text = <<>> \/ Strip(text) = <<>>
    THEN ParsedDefinition(<<>>, <<>>, text, FALSE, FALSE, FALSE)
    ELSE ParseStripped(Strip(text), pos_subtype = S_is, HasEtcSuffix(Strip(text)))

(***************************************************************************)
(* Sort keys and the two generators of English-to-Klingon entries          *)
(***************************************************************************)

\* The end of a run of spaces that starts at p
RECURSIVE SkipSpaces(_, _)
SkipSpaces(text, p) ==
    IF p <= Len(text) /\ text[p] = " " THEN SkipSpaces(text, p + 1) ELSE p

\* The position of the parenthesis that closes a match of \s*\([^)]*\) at p,
\* 0 when there is no match at p
ParenMatch(text, q) ==
    IF q <= Len(text) /\ text[q] = "(" THEN IndexFrom(text, ")", q + 1) ELSE 0

\* re.sub(r'\s*\([^)]*\)\s*', ' ', text), from position p on
RECURSIVE SubParensFrom(_, _)
SubParensFrom(text, p) ==
    IF p > Len(text) THEN <<>>
    ELSE IF ParenMatch(text, SkipSpaces(text, p)) > 0
        THEN <<" ">> \o SubParensFrom(text,
                            SkipSpaces(text, ParenMatch(text, SkipSpaces(text, p)) + 1))
    ELSE <<text[p]>> \o SubParensFrom(text, p + 1)

\* For be-verbs, strip the "be " prefix
StripBe(text, is_be_verb) ==
    IF is_be_verb /\ StartsWith(Lower(text), <<"b", "e", " ">>)
    THEN SubSeq(text, 4, Len(text)) ELSE text

\* text_no_parens.split() of both get_sort_key, on the stripped text
SortWords(text, is_be_verb) ==
    SplitWords(StripBe(Strip(SubParensFrom(text, 1)), is_be_verb))

\* words[0].lower(), and text.lower() when there is no word
FirstWord(words, text) ==
    IF words # <<>> THEN Lower(words[1]) ELSE Lower(text)

\* DefinitionPart.get_sort_key(is_be_verb)
DefinitionPart_get_sort_key(part, is_be_verb) ==
    IF part.sort_keyword # <<>> THEN Lower(part.sort_keyword)
    ELSE FirstWord(SortWords(Strip(part.text), is_be_verb), Strip(part.text))

Articles == {<<"a">>, <<"a", "n">>, <<"t", "h", "e">>, <<"t", "o">>}

\* while words and words[0].lower() in ('a', 'an', 'the', 'to')
RECURSIVE DropArticles(_)
DropArticles(words) ==
    IF words # <<>> /\ Lower(words[1]) \in Articles
    THEN DropArticles(Tail(words)) ELSE words

\* ek_generator.get_sort_key(text, is_be_verb)
get_sort_key(text, is_be_verb) ==
    FirstWord(DropArticles(SortWords(Strip(text), is_be_verb)), Strip(text))

\* An entry of the reverse index: of EKEntry the model keeps the sort key
\* and the display text, the other fields being copied from the entry
EKEntry(sort_key, display) == [sort_key |-> sort_key, display |-> display]

\* Only the parts that come after the i-th
OtherPartsAfter(parts, i) == PartTexts(SubSeq(parts, i + 1, Len(parts)))

\* [p.text for j, p in enumerate(parts) if j != i]
OtherParts(parts, i) ==
    PartTexts(SubSeq(parts, 1, i - 1) \o SubSeq(parts, i + 1, Len(parts)))

\* display += f' ({global_parenthetical})'
WithGlobal(display, global_parenthetical) ==
    IF global_parenthetical # <<>>
    THEN display \o <<" ", "(">> \o global_parenthetical \o <<")">>
    ELSE display

\* A test of seen_keys that finds no key
NeverSeen(sort_key, seen_keys) == FALSE

\* if sort_key in seen_keys: continue
SeenKey(sort_key, seen_keys) == sort_key \in seen_keys

\* The loop of definition_parser.generate_ek_entries, from the i-th part
RECURSIVE EkLoop(_, _, _, _, _)
EkLoop(parsed, is_be_verb, i, seen_keys, entries) ==
    IF i > Len(parsed.parts) THEN entries
    ELSE IF SeenKey(DefinitionPart_get_sort_key(parsed.parts[i], is_be_verb), seen_keys)
        THEN EkLoop(parsed, is_be_verb, i + 1, seen_keys, entries)
    ELSE EkLoop(parsed, is_be_verb, i + 1,
                seen_keys \cup {DefinitionPart_get_sort_key(parsed.parts[i], is_be_verb)},
                Append(entries,
                       EKEntry(DefinitionPart_get_sort_key(parsed.parts[i], is_be_verb),
                               WithGlobal(JoinWith(<<parsed.parts[i].text>>
                                                   \o OtherParts(parsed.parts, i),
                                                   <<",", " ">>),
                                          parsed.global_parenthetical))))

\* definition_parser.generate_ek_entries(parsed, is_be_verb)
generate_ek_entries(parsed, is_be_verb) ==
    IF parsed.parts = <<>> THEN <<>>
    ELSE IF Len(parsed.parts) = 1
        THEN <<EKEntry(DefinitionPart_get_sort_key(parsed.parts[1], is_be_verb),
                       parsed.raw_text)>>
    ELSE EkLoop(parsed, is_be_verb, 1, {}, <<>>)

\* The definition ek_generator reads from an entry, a text or a structure:
\* the keys a structure lacks have the defaults of definition.get
Definition(text, parts, global_parenthetical, no_permute, dedup) ==
    [text                 |-> text,
     parts                |-> parts,
     global_parenthetical |-> global_parenthetical,
     no_permute           |-> no_permute,
     dedup                |-> dedup]

\* The definition migrate_xml stores for a parsed definition
StructuredDefinition(text, parsed) ==
    Definition(text,
               IF Len(parsed.parts) > 1 \/ parsed.global_parenthetical # <<>>
               THEN parsed.parts ELSE <<>>,
               parsed.global_parenthetical, parsed.no_permute, parsed.dedup)

\* The definition migrate_xml stores for an entry
migrate_definition(text, pos_subtype) ==
    IF text # <<>> /\ ~StartsWith(text, <<"{">>)
    THEN StructuredDefinition(text, parse_definition(text, pos_subtype))
    ELSE Definition(text, <<>>, <<>>, FALSE, FALSE)

\* The sort key of a part of a stored definition
PartKey(part_data, is_be_verb) ==
    IF part_data.sort_keyword # <<>> THEN Lower(part_data.sort_keyword)
    ELSE get_sort_key(part_data.text, is_be_verb)

\* The display of the i-th part: for be-verbs the adjective comes first
PartDisplay(ek_parts, i, is_be_verb) ==
    JoinWith((IF is_be_verb
              THEN <<StripBe(Strip(ek_parts[i].text), TRUE), ek_parts[i].text>>
              ELSE <<ek_parts[i].text>>)
             \o OtherParts(ek_parts, i),
             <<",", " ">>)

\* The loop of ek_generator.generate_ek_entries over the parts of one
\* definition, from the i-th part; dedup breaks it after the first entry
RECURSIVE PartsLoop(_, _, _, _, _)
PartsLoop(definition, is_be_verb, i, seen_keys, entries) ==
    IF i > Len(definition.parts) THEN entries
    ELSE IF SeenKey(PartKey(definition.parts[i], is_be_verb), seen_keys)
        THEN PartsLoop(definition, is_be_verb, i + 1, seen_keys, entries)
    ELSE IF definition.dedup
        THEN Append(entries,
                    EKEntry(PartKey(definition.parts[i], is_be_verb),
                            WithGlobal(PartDisplay(definition.parts, i, is_be_verb),
                                       definition.global_parenthetical)))
    ELSE PartsLoop(definition, is_be_verb, i + 1,
                   seen_keys \cup {PartKey(definition.parts[i], is_be_verb)},
                   Append(entries,
                          EKEntry(PartKey(definition.parts[i], is_be_verb),
                                  WithGlobal(PartDisplay(definition.parts, i, is_be_verb),
                                             definition.global_parenthetical))))

\* The body of the loop of ek_generator.generate_ek_entries: the entries of
\* the reverse index that one entry of the dictionary gives
ek_generator_generate_ek_entries(definition, is_be_verb) ==
    IF definition.text = <<>> \/ StartsWith(definition.text, <<"{">>) THEN <<>>
    ELSE IF definition.no_permute
        THEN <<EKEntry(get_sort_key(definition.text, is_be_verb), definition.text)>>
    ELSE IF Len(definition.parts) > 1
        THEN PartsLoop(definition, is_be_verb, 1, {}, <<>>)
    ELSE <<EKEntry(get_sort_key(definition.text, is_be_verb), definition.text)>>

(***************************************************************************)
(* The definition parser and the generators as a program                   *)
(***************************************************************************)

\* The definitions handed to the parser: alternatives, be-verbs, guard
\* cases, item lists, sentences, references, parentheticals, semicolons,
\* blank texts
DefinitionTexts ==
    {<<"f", "l", "a", "p", ",", " ", "f", "l", "u", "t", "t", "e", "r", ",", " ", "w", "a", "v", "e">>,
     <<"b", "e", " ", "h", "o", "s", "t", "i", "l", "e", ",", " ", "b", "e", " ", "s", "a", "d">>,
     <<"{", "a", "}", ",", " ", "{", "b", "}">>,
     <<"g", "o", ",", " ", "t", "r", "a", "v", "e", "l", " ", "o", "n", " ", "a", " ", "m", "i", "s", "s", "i", "o", "n">>,
     <<"a", "c", "t", "o", "r", ",", " ", "a", "c", "t", "r", "e", "s", "s">>,
     <<"b", "i", "r", "d", " ", "c", "a", "p", "a", "b", "l", "e", " ", "o", "f", " ", "s", "p", "e", "e", "c", "h">>,
     <<"a", " ", "c", "r", "e", "a", "t", "u", "r", "e", " ", "n", "e", "v", "e", "r", " ", "s", "t", "i", "l", "l", ",", " ", "o", "d", "d", ";", " ", "s", "h", "y">>,
     <<"s", "i", "n", "k", " ", "f", "o", "r", " ", "h", "a", "n", "d", "s", ",", " ", "f", "a", "c", "e">>,
     <<"g", "o", "o", "d", " ", "n", "e", "w", "s", ",", " ", "i", "t", " ", "i", "s">>,
     <<"B", "i", "r", "d", " ", "x", ",", " ", "y">>,
     <<" ", " ", "b", "i", "r", "d", " ", "a", ",", " ", "b", " ">>,
     <<"c", "a", "t", ",", " ", "c", "a", "t", " ", "f", "o", "o", "d">>,
     <<"t", "h", "e", " ", "c", "a", "t", ",", " ", "c", "a", "t">>,
     <<"t", "h", "e", " ", "c", "a", "t">>,
     <<"w", "a", "v", "e", " ", "(", "o", "f", " ", "h", "a", "n", "d", ")">>,
     <<"b", "e", " ", "h", "a", "p", "p", "y">>,
     <<"(", "n", "o", "t", "e", ")">>,
     <<"{", "S", "o", "j", ":", "n", "}">>,
     <<"t", "o", " ", "g", "o">>,
     <<"a", ",", " ", "(", "e", ".", "g", ".", ",", " ", "b", ")">>,
     <<"f", "i", "r", "e", ",", " ", "g", "o", " ", "(", "e", ".", "g", ".", ",", " ", "x", ")">>,
     <<"f", "i", "r", "e", ",", " ", "g", "o", " ", "(", "x", ")">>,
     <<"f", "i", "r", "e", ",", " ", "g", "o", " ", "u", "p", " ", "(", "x", ")">>,
     <<"f", "i", "r", "e", " ", "(", "x", ")", ",", " ", "g", "o", " ", "(", "y", ")">>,
     <<"f", "i", "r", "e", ",", " ", "g", "o", " ", "(", ")">>,
     <<"a", " ", "(", "b", ";", " ", "c", ")", ";", " ", "d">>,
     <<"a", ";", " ", "b", " ", "(", "e", ".", "g", ".", ",", " ", "x", ")">>,
     <<"a", ";", " ", "(", "e", ".", "g", ".", ",", " ", "b", ")">>,
     <<"{", "a", "}", ";", " ", "{", "b", "}">>,
     <<"x", " ", "(", "a", ",", " ", "b", ")", ",", " ", "y">>,
     <<"c", "a", "t", "s", ";", " ", "d", "o", "g", "s", ",", " ", "e", "t", "c", ".">>,
     <<"r", "u", "n", " ", "e", "t", "c", ".">>,
     <<"G", "o", " ", "a", "w", "a", "y", "!">>,
     <<"t", "o", "o", "l", " ", "f", "o", "r", " ", "h", "a", "n", "d", "s", ",", " ", "f", "a", "c", "e">>,
     <<"a", ",", " ", "b", ",", " ", "e", "t", "c", ".">>,
     <<"c", "a", "n", "c", "e", "l", ";", " ", "a", "b", "o", "r", "t">>,
     <<"a", ",", " ", "b", ";", " ", "c">>,
     <<>>,
     <<" ", " ">>}

\* pos_subtype: None, or 'is' for a be-verb
PosSubtypes == {<<>>, S_is}

\* The parser and the generators touch neither the store nor the index
EkInit ==
    /\ dictionary = <<>>
    /\ derived_index = NoKeys
    /\ analyzer = Analyses
    /\ language = EN
    /\ link_format = "html"
    /\ call = [fn |-> "import"]
    /\ result = [ok |-> TRUE]

EkReturn(fn, text, pos_subtype, v) ==
    /\ call' = [fn |-> fn, text |-> text, pos_subtype |-> pos_subtype]
    /\ result' = Ok(v)
    /\ UNCHANGED <<dictionary, derived_index, analyzer, language, link_format>>

\* parse_definition(text, pos_subtype)
ParseDefinition(text, pos_subtype) ==
    EkReturn("parse_definition", text, pos_subtype,
             parse_definition(text, pos_subtype))

\* generate_ek_entries(parse_definition(text, pos_subtype), pos_subtype == 'is')
GenerateEkEntries(text, pos_subtype) ==
    EkReturn("generate_ek_entries", text, pos_subtype,
             generate_ek_entries(parse_definition(text, pos_subtype),
                                 pos_subtype = S_is))

\* ek_generator on the entry migrate_xml makes of a definition
EkGenerator(text, pos_subtype) ==
    EkReturn("ek_generator", text, pos_subtype,
             ek_generator_generate_ek_entries(migrate_definition(text, pos_subtype),
                                              pos_subtype = S_is))

EkNext ==
    \/ \E text \in DefinitionTexts, pos_subtype \in PosSubtypes :
           ParseDefinition(text, pos_subtype)
    \/ \E text \in DefinitionTexts, pos_subtype \in PosSubtypes :
           GenerateEkEntries(text, pos_subtype)
    \/ \E text \in DefinitionTexts, pos_subtype \in PosSubtypes :
           EkGenerator(text, pos_subtype)

EkSpec == EkInit /\ [][EkNext]_vars

(***************************************************************************)
(* Properties                                                              *)
(***************************************************************************)

\* The identifiers of a list of views or of entries
Ids(list) == [i \in 1..Len(list) |-> list[i].id]

Range(list) == {list[i] : i \in 1..Len(list)}

\* What the caller of a call gets: the value returned, or the exception
Outcome(r) == [i \in DOMAIN r \ {"index"} |-> r[i]]

\* The index as make_derived_index left it at the import
FreshIndex == make_derived_index(dictionary).v

\* The last call was execute_query on q
IsQuery(q) == call.fn = "execute_query" /\ call.query = q

\* The last call was render_entry on the entry e
IsRender(e) == call.fn = "render_entry" /\ call.entry = e.id

\* Of the list execute_query returned: the identifiers that come from the
\* word-analysis passes, and those that come from the DSL pass
PartIds == SubSeq(Ids(result.ans), 1, result.nparts)
DslIds  == SubSeq(Ids(result.ans), result.nparts + 1, Len(result.ans))

\* One term of a query, evaluated on one entry
TermOn(t, e) == Eval(LeafNode(t), e)

\* (C1) execute_query returns for every store and every query: it never
\* raises to its caller.
C1_NeverRaises ==
    call.fn = "execute_query" => result.ok

\* (C2) A term that raises on an entry counts as false for that entry and
\* term only: of `a OR b`, execute_query returns and its DSL pass emits
\* exactly the entries, not emitted before, on which a or b matches, a
\* raising term being no match.
C2_FailingTermCountsAsFalse ==
    \A p \in OrPairs :
        IsQuery(Q_or(p[1], p[2])) /\ result.ok =>
            Range(DslIds) =
                {e.id : e \in {x \in Range(dictionary) :
                    /\ x.id \notin Range(PartIds)
                    /\ \/ TermOn(p[1], x) = "match"
                       \/ TermOn(p[2], x) = "match"}}

\* (C3) The result of `NOT pos:nodict AND pos:n` holds no entry tagged
\* nodict: it is, in store order, the entries that have n and do not have
\* nodict among their part of speech and tags.
C3_NotNodictAndN ==
    IsQuery(Q_not_nodict) /\ result.ok =>
        /\ \A i \in 1..Len(result.ans) : S_nodict \notin result.ans[i].boqwi_tags
        /\ Ids(result.ans) =
               Ids(SelectSeq(dictionary,
                   LAMBDA e : /\ S_nodict \notin {e.simple_pos} \cup e.tags
                              /\ <<"n">> \in {e.simple_pos} \cup e.tags))

\* A store with a nodict noun beside a noun the query returns
C3_Witness ==
    /\ IsQuery(Q_not_nodict)
    /\ result.ok
    /\ Len(result.ans) >= 1
    /\ \E i \in 1..Len(dictionary) :
          S_nodict \in dictionary[i].tags /\ dictionary[i].simple_pos = <<"n">>

\* (C4, as the code has it) The DSL pass of `a OR b` emits, in store order,
\* the entries not emitted before on which a matches, or on which a is
\* evaluated to no match without raising and b matches.
C4_OrInStoreOrder ==
    \A p \in OrPairs :
        IsQuery(Q_or(p[1], p[2])) /\ result.ok =>
            DslIds =
                Ids(SelectSeq(dictionary,
                    LAMBDA e : /\ e.id \notin Range(PartIds)
                               /\ \/ TermOn(p[1], e) = "match"
                                  \/ /\ TermOn(p[1], e) = "nomatch"
                                     /\ TermOn(p[2], e) = "match"))

\* `soj OR pos:n` on a store whose first entry matches only pos:n and whose
\* second entry matches only soj
C4_Witness ==
    /\ IsQuery(Q_or(Q_soj, Q_pos_n))
    /\ result.ok
    /\ Ids(result.ans) = <<Id_Qo, Id_sen>>

\* (C4, as stated) The DSL pass of `a OR b` emits all the matches of a in
\* store order, then the matches of b not yet included.
C4_OrAThenB ==
    \A p \in OrPairs :
        IsQuery(Q_or(p[1], p[2])) /\ result.ok =>
            DslIds =
                Ids(SelectSeq(dictionary,
                        LAMBDA e : /\ e.id \notin Range(PartIds)
                                   /\ TermOn(p[1], e) = "match"))
                \o Ids(SelectSeq(dictionary,
                        LAMBDA e : /\ e.id \notin Range(PartIds)
                                   /\ TermOn(p[1], e) # "match"
                                   /\ TermOn(p[2], e) = "match"))

\* (C5, as the code has it) The DSL pass gives `(a AND b)` the entries it
\* gives `a AND b` for the same entries emitted before, in the same order;
\* and execute_query gives both queries the same when the word-analysis
\* passes find no component in either.
C5_ParenSameDslResult ==
    \A p \in AndPairs :
        LET q == Q_and(p[1], p[2])
        IN  /\ IsQuery(Q_paren(q)) /\ result.ok =>
                /\ dsl_query(q, Range(PartIds), derived_index).ok
                /\ DslIds = Ids(dsl_query(q, Range(PartIds), derived_index).ans)
            /\ /\ IsQuery(Q_paren(q))
               /\ AnalysisParts(q) = <<>>
               /\ AnalysisParts(Q_paren(q)) = <<>>
               => result = Outcome(execute_query(q, FreshIndex))

\* `(sojna AND food)` on a store that holds Soj and Sojna: the DSL pass
\* finds Sojna, and no component of the word Sojna is returned first
C5_Witness ==
    /\ IsQuery(Q_paren(Q_and(Q_sojna, Q_food)))
    /\ result.ok
    /\ Ids(result.ans) = <<Id_Sojna>>
    /\ Id_Soj \in StoreIds

\* (C5, as stated) execute_query returns for `(a AND b)` the entries it
\* returns for `a AND b`, in the same order.
C5_ParenSameResult ==
    \A p \in AndPairs :
        IsQuery(Q_paren(Q_and(p[1], p[2]))) =>
            /\ result.ok = execute_query(Q_and(p[1], p[2]), FreshIndex).ok
            /\ result.ok =>
                  Ids(result.ans) =
                      Ids(execute_query(Q_and(p[1], p[2]), FreshIndex).ans)

\* (C6) A term whose operator is not registered is false on every entry and
\* never raises: alone it returns nothing, `zz:o OR pos:n` returns what
\* `pos:n` returns, and `NOT zz:o` returns every entry of the store.
C6_UnregisteredIsFalse ==
    /\ \A i \in 1..Len(dictionary) :
          Eval(parse_or(Tokenize(Q_unreg)).f, dictionary[i]) = "nomatch"
    /\ IsQuery(Q_unreg) => result.ok /\ result.ans = <<>>
    /\ IsQuery(Q_or(Q_unreg, Q_pos_n)) =>
          result = Outcome(execute_query(Q_pos_n, FreshIndex))
    /\ IsQuery(Q_not(Q_unreg)) /\ result.ok => Ids(result.ans) = Ids(dictionary)

\* `zz:o OR pos:n` has returned a noun
C6_Witness ==
    /\ IsQuery(Q_or(Q_unreg, Q_pos_n))
    /\ result.ok
    /\ Len(result.ans) >= 1

\* (C7) The list execute_query returns names no entry twice: first come the
\* components of the word-analysis passes, each once, in the order of their
\* first occurrence; then, for a query that is not empty, every entry of the
\* store that matches the DSL expression and is not among those components,
\* in store order.
C7_EachEntryOnce ==
    call.fn = "execute_query" /\ result.ok =>
        LET q == NormalizeQuery(call.query)
        IN  /\ \A i, j \in 1..Len(result.ans) :
                  result.ans[i].id = result.ans[j].id => i = j
            /\ PartIds = (IF call.query = <<>> THEN <<>>
                          ELSE Dedup(AnalysisParts(q), {}))
            /\ DslIds = (IF call.query = <<>> THEN <<>>
                         ELSE Ids(SelectSeq(dictionary,
                                  LAMBDA e : /\ e.id \notin Range(PartIds)
                                             /\ Matches(parse_or(Tokenize(q)).f, e))))

\* The word Sojna: both analyses name Sojna:n, which is returned once, and
\* the DSL pass, which matches Sojna too, adds nothing
C7_Witness ==
    /\ IsQuery(Q_sojna)
    /\ result.ok
    /\ Ids(result.ans) = <<Id_Sojna, Id_Soj>>
    /\ result.nparts = 2

\* (C8) No call changes the derived index: its keys and its lists stay as
\* make_derived_index left them.
C8_IndexReadOnly ==
    derived_index = FreshIndex

\* (C9) execute_query is stateless: whatever calls came before, it gives the
\* query what it gives it right after the import.
C9_Stateless ==
    call.fn = "execute_query" =>
        result = Outcome(execute_query(call.query, FreshIndex))

\* A query has returned entries after earlier calls had left their keys in
\* the index
C9_Witness ==
    /\ call.fn = "execute_query"
    /\ result.ok
    /\ Len(result.ans) >= 1
    /\ DOMAIN derived_index # DOMAIN execute_query(call.query, FreshIndex).index

\* The components of x hold a reference that resolves to the entry y
Refs(x, y) ==
    /\ S_sen \notin x.tags
    /\ \E k \in 1..Len(get_links(x.components).v) :
          LET c == get_links(x.components).v[k]
          IN  c = y.id \/ (Count(c, ":") = 1 /\ c \o <<":", "1">> = y.id)

\* (C10) When the components of a non-sentence entry X refer to the entry Y,
\* derived_index[Y] holds X and a render_entry(Y) that returns lists the
\* shallow view of X under "derived"; Y is listed under X only when the
\* components of Y refer to X.
C10_DerivedDirection ==
    \A i, j \in 1..Len(dictionary) :
        LET X == dictionary[i]
            Y == dictionary[j]
        IN  /\ Refs(X, Y) =>
                /\ Y.id \in DOMAIN derived_index
                /\ InSeq(X.id, derived_index[Y.id])
            /\ Refs(X, Y) /\ IsRender(Y) /\ result.ok =>
                \E k \in 1..Len(result.v.derived) :
                    result.v.derived[k] = EntryView(X).v
            /\ ~Refs(Y, X) =>
                /\ X.id \in DOMAIN derived_index => ~InSeq(Y.id, derived_index[X.id])
                /\ IsRender(X) /\ result.ok => ~InSeq(Y.id, Ids(result.v.derived))

\* Soj rendered in a store where the components of Sojna refer to it
C10_Witness ==
    /\ IsRender(E_Soj)
    /\ result.ok
    /\ Ids(result.v.derived) = <<Id_Sojna>>
    /\ result.v.derived[1].derived = <<>>
    /\ Len(dictionary) = 2 /\ dictionary[2] = E_Sojna

\* The views a call has returned to its caller
Views ==
    IF ~result.ok THEN <<>>
    ELSE IF call.fn = "execute_query" THEN result.ans
    ELSE IF call.fn = "render_entry" THEN <<result.v>>
    ELSE <<>>

\* (C11) Derived views are one level deep: whatever call returned, no view
\* in a "derived" list has derived views of its own, and each is the view
\* render_entry builds without the derived entries, also when entries refer
\* to each other or to themselves.
C11_DerivedOneLevel ==
    \A i \in 1..Len(Views) :
        \A k \in 1..Len(Views[i].derived) :
            /\ Views[i].derived[k].derived = <<>>
            /\ Views[i].derived[k] = EntryView(EntryById(Views[i].derived[k].id)).v

\* Qo, whose components refer to Qo, rendered: it is listed under itself,
\* and the view listed has no derived views
C11_Witness ==
    /\ IsRender(E_Qo)
    /\ result.ok
    /\ Ids(result.v.derived) = <<Id_Qo>>
    /\ result.v.derived[1].derived = <<>>

\* Tokens tagged nolink: of an entry type, with a homophone number, of type
\* src, of type url, an affix, a text of two words, and one without a type
NolinkTokens ==
    {<<"t", "a", ":", "v", ":", "n", "o", "l", "i", "n", "k">>,
     <<"S", "o", "j", ":", "n", ":", "1", ",", "n", "o", "l", "i", "n", "k">>,
     <<"T", "K", "D", ":", "s", "r", "c", ":", "n", "o", "l", "i", "n", "k">>,
     <<"w", "e", "b", ":", "u", "r", "l", ":", "n", "o", "l", "i", "n", "k">>,
     <<"-", "p", "u", ":", "n", ":", "n", "o", "l", "i", "n", "k">>,
     <<"S", "o", "j", " ", "t", "a", ":", "s", "e", "n", ":", "n", "o", "l", "i", "n", "k">>,
     <<"S", "o", "j", ":", ":", "n", "o", "l", "i", "n", "k">>}

\* (C12) In both renderers a token tagged nolink is rendered as plain styled
\* text, whatever its type and whatever the store holds: the text is the
\* token's text (in boxes for LaTeX, unless the type is src or url) and the
\* style is affix when the text has a hyphen, else the type, else sen. So
\* are the nolink tokens of the fields of a rendered entry.
C12_NolinkIsPlain ==
    /\ \A tok \in NolinkTokens :
          LET l    == parse_link(tok)
              text == IF link_format = "html" \/ l.link_type \in {S_src, S_url}
                      THEN l.link_text ELSE Mbox(l.link_text)
          IN  fix_link(tok) =
                  Ok([kind  |-> "plain",
                      text  |-> text,
                      style |-> IF InSeq("-", text) THEN S_affix
                                ELSE IF l.link_type # <<>> THEN l.link_type
                                ELSE S_sen])
    /\ \A i \in 1..Len(Views) :
          Views[i].id = Id_sen =>
              /\ Views[i].components[4].kind = "plain"
              /\ Views[i].see_also[2].kind = "plain"
              /\ Views[i].source[2].kind = "plain"
              /\ Views[i].source[4].kind = "plain"

\* The sentence rendered in a store that holds Soj: the token of Soj tagged
\* nolink is plain text, the token of Soj without the tag is a link
C12_Witness ==
    /\ IsRender(E_sen)
    /\ result.ok
    /\ Id_Soj \in StoreIds
    /\ result.v.see_also[2].kind = "plain"
    /\ result.v.see_also[2].text \in {W_Soj, MboxWord(W_Soj)}
    /\ result.v.components[2].kind \in {"entrylink", "entryref"}

\* Tokens of the entry Soj:n:1: with the number shown, with the number
\* hidden, and with other tags around the number
SojTokens ==
    {<<"S", "o", "j", ":", "n", ":", "1">>,
     <<"S", "o", "j", ":", "n", ":", "1", "h">>,
     <<"S", "o", "j", ":", "n", ":", "1", "h", ",", "n", "o", "l", "i", "n", "k">>,
     <<"S", "o", "j", ":", "n", ":", "h", "y", "p", ",", "1">>}

\* The identifier a token resolves to
TokenId(tok) ==
    get_id(parse_link(tok).link_text, parse_link(tok).link_type, parse_link(tok).tags)

\* The anchor of a rendered field carries the title of the entry Soj:n:1
\* exactly when the store holds that entry
TitledSoj(item) ==
    item.kind = "entrylink" =>
        /\ item.titled = (Id_Soj \in StoreIds)
        /\ item.titled => Ok(item.title) = get_unless_translated(E_Soj.definition)

\* (C13) A token text:type:tags resolves to the identifier made of the text,
\* the type and the homophone digits, a trailing h dropped: the tokens of
\* Soj with the tag 1 and with the tag 1h both resolve to Soj:n:1. The index
\* and the tooltip use that identifier: an entry whose components say
\* {Soj:n:1h} is indexed under Soj:n:1, and its link to Soj carries the
\* title of the entry Soj:n:1, as the link of a token {Soj:n:1} does.
C13_HiddenHomophoneSameEntry ==
    /\ \A tok \in SojTokens : TokenId(tok) = Id_Soj
    /\ Id_Qo \in StoreIds => Id_Qo \in Range(Get(FreshIndex, Id_Soj, <<>>))
    /\ \A i \in 1..Len(Views) :
          /\ Views[i].id = Id_Qo  => TitledSoj(Views[i].components[4])
          /\ Views[i].id = Id_sen => TitledSoj(Views[i].components[2])

\* Qo, whose components say {Soj:n:1h}, rendered as HTML in a store that
\* holds Soj: the link has the title of Soj and Qo is indexed under Soj
C13_Witness ==
    /\ IsRender(E_Qo)
    /\ result.ok
    /\ link_format = "html"
    /\ Id_Soj \in StoreIds
    /\ result.v.components[4].kind = "entrylink"
    /\ result.v.components[4].titled
    /\ Id_Qo \in Range(Get(FreshIndex, Id_Soj, <<>>))

\* A value that marks a pending translation
IsMarker(text) == Contains(text, S_AUTOTRANSLATED) \/ text = S_TRANSLATE

\* (C20) get_unless_translated returns the value of the query locale when
\* it is present, non-empty and not a marker of a pending translation,
\* otherwise the English value, and the empty text when English is absent
\* too; it never raises.
C20_FallsBackToEnglish ==
    call.fn = "get_unless_translated" =>
        LET own == Get(call.d, language, <<>>)
        IN  result = Ok(IF own # <<>> /\ ~IsMarker(own) THEN own
                        ELSE Get(call.d, EN, <<>>))

\* The last call was fn on a definition text
IsEkCall(fn, text, pos_subtype) ==
    /\ call.fn = fn
    /\ call.text = text
    /\ call.pos_subtype = pos_subtype

\* The last call was one of the two generators
IsGeneration == call.fn \in {"generate_ek_entries", "ek_generator"}

\* What parse_definition makes of the definition of the last call
Parsed == parse_definition(call.text, call.pos_subtype)

\* (C14) A ParsedDefinition that parse_definition returns with at most one
\* part has global_parenthetical unset.
C14_OnePartNoGlobal ==
    call.fn = "parse_definition" =>
        (Len(result.v.parts) <= 1 => result.v.global_parenthetical = <<>>)

\* The alternatives of a text: its pieces between commas, trimmed, the blank
\* ones left out
Alternatives(text) ==
    LET pieces == Split(text, ",")
    IN  SelectSeq([i \in 1..Len(pieces) |-> Strip(pieces[i])], LAMBDA p : p # <<>>)

\* A definition of two or more comma-separated alternatives with no
\* semicolon or parenthesis, neither a guard case nor an item list, whose
\* parts have pairwise distinct sort keys
PlainAlternatives(text, is_be_verb) ==
    /\ Len(Alternatives(text)) >= 2
    /\ ~InSeq(";", text) /\ ~InSeq("(", text) /\ ~InSeq(")", text)
    /\ ~is_guard_case(Strip(text))
    /\ ~looks_like_item_list(Alternatives(text))
    /\ \A i, j \in 1..Len(Alternatives(text)) :
          i # j => DefinitionPart_get_sort_key(PartsOf(Alternatives(text))[i], is_be_verb)
                   # DefinitionPart_get_sort_key(PartsOf(Alternatives(text))[j], is_be_verb)

\* Part i followed by every other part in the original order, joined by ", "
RotationOf(alts, i) ==
    JoinWith(<<alts[i]>> \o [j \in 1..(Len(alts) - 1) |-> alts[IF j < i THEN j ELSE j + 1]],
             <<",", " ">>)

\* The first word of a text, lowercased
FirstWordLower(text) == Lower(SplitWords(text)[1])

\* The parts are the alternatives, and the entries their rotations with the
\* keys that key gives
RotationsWithKeys(alts, key(_)) ==
    /\ PartTexts(Parsed.parts) = alts
    /\ Len(result.v) = Len(alts)
    /\ \A i \in 1..Len(alts) :
          /\ result.v[i].display = RotationOf(alts, i)
          /\ result.v[i].sort_key = key(alts[i])

\* (C15) As the claim has it: for plain alternatives, parse_definition
\* yields the n parts in source order and generate_ek_entries the n
\* rotations, the key of the i-th being the first word of part i lowercased.
C15_RotationsFirstWord ==
    (call.fn = "generate_ek_entries" /\ PlainAlternatives(call.text, call.pos_subtype = S_is)) =>
        RotationsWithKeys(Alternatives(call.text), FirstWordLower)

\* The sort key of an alternative without parenthesis
AlternativeKey(alt) ==
    IF Contains(Lower(alt), <<"t", "r", "a", "v", "e", "l", " ", "o", "n", " ", "a", " ", "m", "i", "s", "s", "i", "o", "n">>) THEN <<"m", "i", "s", "s", "i", "o", "n">>
    ELSE IF call.pos_subtype = S_is /\ StartsWith(Lower(alt), <<"b", "e", " ">>)
        THEN FirstWordLower(SubSeq(alt, 4, Len(alt)))
    ELSE FirstWordLower(alt)

\* (C15) For plain alternatives that do not both begin with an opening brace
\* and end with a closing brace, parse_definition yields the n parts in
\* source order and generate_ek_entries the n rotations in source order, the
\* i-th being part i followed by every other part in the original order
\* joined by ", "; its sort key is "mission" when part i contains "travel on
\* a mission", and otherwise the first word of part i, lowercased, taken
\* after a leading "be " is removed when is_be_verb is set.
C15_Rotations ==
    (/\ call.fn = "generate_ek_entries"
     /\ PlainAlternatives(call.text, call.pos_subtype = S_is)
     /\ ~(StartsWith(Strip(call.text), <<"{">>) /\ EndsWith(Strip(call.text), <<"}">>))) =>
        RotationsWithKeys(Alternatives(call.text), AlternativeKey)

\* The three rotations of "flap, flutter, wave"
C15_Witness ==
    /\ IsEkCall("generate_ek_entries", <<"f", "l", "a", "p", ",", " ", "f", "l", "u", "t", "t", "e", "r", ",", " ", "w", "a", "v", "e">>, <<>>)
    /\ Len(result.v) = 3
    /\ result.v[3] = EKEntry(<<"w", "a", "v", "e">>, <<"w", "a", "v", "e", ",", " ", "f", "l", "a", "p", ",", " ", "f", "l", "u", "t", "t", "e", "r">>)

\* (C16) For a two-part definition that parse_definition marks dedup, the
\* generation of the reverse index yields exactly one entry, the one that
\* starts with the first part; so does generate_ek_entries(parsed,
\* is_be_verb).
C16_DedupOneEntry ==
    (IsGeneration /\ Parsed.dedup /\ Len(Parsed.parts) = 2) =>
        /\ Len(result.v) = 1
        /\ StartsWith(result.v[1].display, Parsed.parts[1].text)

\* The prefixes the claim names among those of the guard cases
GuardExamples ==
    {<<"b", "i", "r", "d", " ">>, <<"a", " ", "c", "r", "e", "a", "t", "u", "r", "e", " ">>, <<"s", "i", "n", "k", " ", "f", "o", "r", " ">>, <<"g", "o", "o", "d", " ", "n", "e", "w", "s", ",">>}

\* (C17) For a text whose trimmed, lowercased form starts with a prefix of a
\* guard case, parse_definition returns exactly one part whose text is the
\* trimmed text unchanged, with no_permute set, whatever commas or
\* semicolons the text holds.
C17_GuardCaseOnePart ==
    (call.fn = "parse_definition"
     /\ StartsWithAny(Lower(Strip(call.text)), GuardExamples)) =>
        /\ result.v.parts = <<DefinitionPart(Strip(call.text))>>
        /\ result.v.no_permute

\* A guard case that holds a comma and a semicolon has been parsed
C17_Witness ==
    /\ IsEkCall("parse_definition", <<"a", " ", "c", "r", "e", "a", "t", "u", "r", "e", " ", "n", "e", "v", "e", "r", " ", "s", "t", "i", "l", "l", ",", " ", "o", "d", "d", ";", " ", "s", "h", "y">>, <<>>)
    /\ Len(result.v.parts) = 1
    /\ result.v.no_permute

\* The parts a generator goes through, and the key and the display it gives
\* the i-th of them
GenParts ==
    IF call.fn = "generate_ek_entries" THEN Parsed.parts
    ELSE migrate_definition(call.text, call.pos_subtype).parts

GenKey(i) ==
    IF call.fn = "generate_ek_entries"
    THEN DefinitionPart_get_sort_key(GenParts[i], call.pos_subtype = S_is)
    ELSE PartKey(GenParts[i], call.pos_subtype = S_is)

GenDisplay(i) ==
    WithGlobal(IF call.fn = "generate_ek_entries"
               THEN RotationOf(PartTexts(GenParts), i)
               ELSE PartDisplay(GenParts, i, call.pos_subtype = S_is),
               Parsed.global_parenthetical)

\* (C18) The entries a generator makes of one definition have pairwise
\* distinct sort keys; of a definition of several parts, each entry is the
\* rotation of the first part, in source order, that has the entry's key.
C18_UniqueSortKeys ==
    IsGeneration =>
        /\ \A i, j \in 1..Len(result.v) :
              i # j => result.v[i].sort_key # result.v[j].sort_key
        /\ (Len(GenParts) > 1 /\ result.v # <<>> /\ ~Parsed.no_permute) =>
              \A k \in 1..Len(result.v) :
                  \E i \in 1..Len(GenParts) :
                      /\ GenKey(i) = result.v[k].sort_key
                      /\ \A j \in 1..(i - 1) : GenKey(j) # GenKey(i)
                      /\ result.v[k].display = GenDisplay(i)

\* Two parts with the key "cat" have given one entry, the rotation of the
\* first
C18_Witness ==
    /\ IsEkCall("generate_ek_entries", <<"c", "a", "t", ",", " ", "c", "a", "t", " ", "f", "o", "o", "d">>, S_is)
    /\ Len(Parsed.parts) = 2
    /\ result.v = <<EKEntry(<<"c", "a", "t">>, <<"c", "a", "t", ",", " ", "c", "a", "t", " ", "f", "o", "o", "d">>)>>

\* (C19) Of a parsed definition with exactly one part a generator makes
\* exactly one entry, whose display is the original text and whose sort key
\* is the first significant word of the text, lowercased, after removing
\* parentheticals, a leading "be " for be-verbs and the leading articles
\* and prepositions.
C19_OnePartOneEntry ==
    (IsGeneration /\ Len(Parsed.parts) = 1) =>
        /\ Len(result.v) = 1
        /\ result.v[1].display \in {call.text, Strip(call.text)}
        /\ result.v[1].sort_key = get_sort_key(call.text, call.pos_subtype = S_is)

\* The letters fix_xifan rewrites or looks for
XifanTriggers == {"i", "d", "s", "h", "x", "f", "c", "g"}

\* (C21) fix_xifan returns unchanged every text that holds none of the
\* letters i, d, s, h, x, f, c, g.
C21_PlainTextUnchanged ==
    /\ call.fn = "fix_xifan"
    /\ \A i \in 1..Len(call.text) : call.text[i] \notin XifanTriggers
    => result.v = call.text

\* fix_xifan has been called on `tla`, which holds none of the letters
C21_Witness ==
    /\ call.fn = "fix_xifan"
    /\ call.text = <<"t", "l", "a">>
    /\ result.v = <<"t", "l", "a">>

\* (C29) fix_xifan is idempotent: applied to its own output it returns
\* that output.
C29_Idempotent ==
    call.fn = "fix_xifan" => fix_xifan(result.v) = result.v

\* s is the end of the token list t
IsSuffix(s, t) ==
    /\ Len(s) <= Len(t)
    /\ SubSeq(t, Len(t) - Len(s) + 1, Len(t)) = s

\* (C28) The parser consumes its tokens: on every token list parse_or
\* returns, what each parse function leaves is an end of the list it was
\* given, parse_term on a list that is not empty leaves fewer tokens than
\* it was given, and so does every round of the loops of parse_and and of
\* parse_or.
C28_ParserConsumes ==
    call.fn = "parse_or" =>
        LET s == call.parts
        IN  /\ result.ok
            /\ IsSuffix(result.v.rest, s)
            /\ IsSuffix(parse_and(s).rest, s)
            /\ IsSuffix(parse_term(s).rest, s)
            /\ s # <<>> => Len(parse_term(s).rest) < Len(s)
            /\ s # <<>> /\ Head(s) \notin {<<")">>, T_OR, T_TAI} =>
                  Len(parse_term(IF Head(s) \in {T_AND, T_JA}
                                 THEN Tail(s) ELSE s).rest) < Len(s)
            /\ s # <<>> /\ Head(s) \in {T_OR, T_TAI} =>
                  Len(parse_and(Tail(s)).rest) < Len(s)

\* parse_or has returned on `ta ) OR`: a closing parenthesis never opened
\* and an operator with nothing after it; it stops at the parenthesis and
\* leaves both tokens
C28_Witness ==
    /\ call.fn = "parse_or"
    /\ call.parts = <<Q_ta, <<")">>, T_OR>>
    /\ result.ok
    /\ result.v.rest = <<<<")">>, T_OR>>

\* The closure dsl_query builds for the query q
DslOf(q) == parse_or(Tokenize(q)).f

\* (C22) OR binds loosest, then AND, written or implied by juxtaposition,
\* then NOT: on every entry of the store a query has run on, and for all
\* terms a, b, c, `a b OR c` matches as `(a AND b) OR c` does, `a b` as
\* `a AND b` does, and `NOT a b` as `(NOT a) AND b` does.
C22_Precedence ==
    call.fn = "execute_query" =>
        \A e \in Range(dictionary) : \A a, b \in Terms :
            /\ \A c \in Terms :
                  Matches(DslOf(Q_or(Q_juxt(a, b), c)), e)
                      = Matches(DslOf(Q_or(Q_paren(Q_and(a, b)), c)), e)
            /\ Matches(DslOf(Q_juxt(a, b)), e) = Matches(DslOf(Q_and(a, b)), e)
            /\ Matches(DslOf(Q_juxt(Q_not(a), b)), e)
                  = Matches(DslOf(Q_and(Q_paren(Q_not(a)), b)), e)

\* `soj pos:n OR ta` has run on the store of the two nouns Soj and the verb
\* ta: the verb, which is no noun, is returned with the two nouns
C22_Witness ==
    /\ IsQuery(Q_or(Q_juxt(Q_soj, Q_pos_n), Q_ta))
    /\ dictionary = HomonymStore
    /\ result.ok
    /\ Ids(result.ans) = <<Id_Soj, Id_ta, Id_Soj2>>

\* (C23) `NOT (X)` and `NOT(X)` both match exactly the entries X does not
\* match: on every entry of the store a query has run on, for every term
\* X that evaluates without raising.
C23_NotOfGroup ==
    call.fn = "execute_query" =>
        \A e \in Range(dictionary) : \A x \in Terms :
            Eval(DslOf(x), e) # "raise" =>
                /\ Matches(DslOf(Q_notcall(x)), e) = ~Matches(DslOf(x), e)
                /\ Matches(DslOf(Q_notspaced(x)), e) = ~Matches(DslOf(x), e)

\* The analyses of both word-analysis passes of the query q, the whole
\* query first and then its words
CombinedAnalyses(q) ==
    analyze(fix_xifan(q))
        \o (IF ~InSeq(":", q) THEN AnalyzeWords(Split(q, " ")) ELSE <<>>)

\* (C24) The word-analysis matches of a query come grouped by word name,
\* the groups in the order in which the names first appear across the
\* combined analyses of both passes.
C24_GroupedAcrossPasses ==
    call.fn = "execute_query" /\ call.query # <<>> /\ result.ok =>
        PartIds = fix_analysis_parts(CombinedAnalyses(NormalizeQuery(call.query)))

\* (C25) Every definition whose trimmed text ends in `, etc.` or ` etc.`
\* comes back from parse_definition with etc_suffix set, whichever return
\* produces the result.
C25_EtcOnEveryPath ==
    call.fn = "parse_definition" /\ HasEtcSuffix(Strip(call.text)) =>
        result.v.etc_suffix

\* The text is a sentence with no comma or semicolon, or an entry reference
IsSingleToken(text) ==
    \/ /\ \E c \in {".", "!", "?"} : EndsWith(text, <<c>>)
       /\ ~InSeq(",", text) /\ ~InSeq(";", text)
    \/ StartsWith(text, <<"{">>) /\ EndsWith(text, <<"}">>)

\* The text goes past the guard and the single-token returns
IsSplit(text) ==
    /\ Strip(text) # <<>>
    /\ ~is_guard_case(Strip(text))
    /\ ~IsSingleToken(Strip(text))

\* The segments of a definition: what the loop over the semicolon sections
\* collects; none when the text returns before the loop
Segments(text) ==
    IF IsSplit(text)
    THEN RawParts(split_on_delimiters(Strip(text), {";"}), 1)
    ELSE <<>>

\* The segment ends with a closing parenthesis that has its opening one
HasTrailingParenthetical(segment) ==
    /\ EndsWith(Strip(segment), <<")">>)
    /\ extract_trailing_parenthetical(segment).before # Strip(segment)

HasParentheses(segment) == InSeq("(", segment) /\ InSeq(")", segment)

\* Conditions (a) and (b) on the segments: no earlier segment holds
\* parentheses, and what is left of the last segment is one word or the
\* content of its parenthetical holds a global marker
IsPromoted(segments) ==
    LET last == extract_trailing_parenthetical(segments[Len(segments)])
    IN  /\ \A i \in 1..(Len(segments) - 1) : ~HasParentheses(segments[i])
        /\ \/ last.before # <<>> /\ ~InSeq(" ", last.before)
           \/ \E indicator \in global_indicators :
                  Contains(Lower(last.paren), indicator)

\* The segments with the last one cut down to what stands before its
\* trailing parenthetical
LastStripped(segments) ==
    [segments EXCEPT ![Len(segments)] =
        extract_trailing_parenthetical(segments[Len(segments)]).before]

NonBlank(segments) == SelectSeq(segments, LAMBDA p : Strip(p) # <<>>)

\* The global parenthetical in parentheses
InParentheses(global_paren) == <<"(">> \o global_paren \o <<")">>

\* Every entry ends with the suffix
EndWith(entries, suffix) ==
    \A i \in 1..Len(entries) : EndsWith(entries[i].display, suffix)

\* (C26) In a parse of two or more segments whose last segment ends with a
\* parenthetical, the parenthetical becomes global_parenthetical and is
\* taken off the last segment exactly when (a) and (b) hold; otherwise
\* global_parenthetical is unset and the last part keeps it. When it is set,
\* every entry of generate_ek_entries ends with it in parentheses.
C26_GlobalParenthetical ==
    /\ (call.fn = "parse_definition"
        /\ Len(Segments(call.text)) >= 2
        /\ HasTrailingParenthetical(Segments(call.text)[Len(Segments(call.text))])) =>
           LET segments == Segments(call.text)
               last     == extract_trailing_parenthetical(segments[Len(segments)])
           IN  IF IsPromoted(segments)
               THEN /\ last.paren # <<>>
                    /\ result.v.global_parenthetical = last.paren
                    /\ PartTexts(result.v.parts) = LastStripped(segments)
               ELSE /\ result.v.global_parenthetical = <<>>
                    /\ PartTexts(result.v.parts) = segments
    /\ (call.fn = "generate_ek_entries" /\ Parsed.global_parenthetical # <<>>) =>
           EndWith(result.v, InParentheses(Parsed.global_parenthetical))

\* (C26, as the code has it) In a parse of two or more segments, the
\* trailing parenthetical of the last segment becomes global_parenthetical
\* exactly when its content is not empty and (a) and (b) hold; the last
\* segment is then cut down to what stands before it, and is dropped when
\* nothing does. Otherwise global_parenthetical is unset and every segment
\* is a part as it is. When global_parenthetical is set and two or more
\* parts are left, every entry of generate_ek_entries ends with a space and
\* the parenthetical in parentheses; when one part is left, the one entry
\* shows the raw text.
C26_GlobalContentful ==
    /\ (call.fn = "parse_definition" /\ Len(Segments(call.text)) >= 2) =>
           LET segments == Segments(call.text)
               last     == extract_trailing_parenthetical(segments[Len(segments)])
           IN  IF last.paren # <<>> /\ IsPromoted(segments)
               THEN /\ result.v.global_parenthetical = last.paren
                    /\ PartTexts(result.v.parts) = NonBlank(LastStripped(segments))
               ELSE /\ result.v.global_parenthetical = <<>>
                    /\ PartTexts(result.v.parts) = segments
    /\ (call.fn = "generate_ek_entries" /\ Parsed.global_parenthetical # <<>>) =>
           IF Len(Parsed.parts) >= 2
           THEN EndWith(result.v, <<" ">> \o InParentheses(Parsed.global_parenthetical))
           ELSE /\ Len(result.v) = 1
                /\ result.v[1].display = Parsed.raw_text

\* The entries of `fire, go (x)` have been generated: both end with (x)
C26_Witness ==
    /\ IsEkCall("generate_ek_entries", <<"f", "i", "r", "e", ",", " ", "g", "o", " ", "(", "x", ")">>, <<>>)
    /\ Parsed.global_parenthetical = <<"x">>
    /\ PartTexts(Parsed.parts) = <<<<"f", "i", "r", "e">>, <<"g", "o">>>>
    /\ [i \in 1..Len(result.v) |-> result.v[i].display]
           = <<<<"f", "i", "r", "e", ",", " ", "g", "o", " ", "(", "x", ")">>, <<"g", "o", ",", " ", "f", "i", "r", "e", " ", "(", "x", ")">>>>

\* The parentheses of the text match: none closes before it opens and none
\* stays open
RECURSIVE Balanced(_, _, _)
Balanced(text, p, depth) ==
    IF p > Len(text) THEN depth = 0
    ELSE IF text[p] = "(" THEN Balanced(text, p + 1, depth + 1)
    ELSE IF text[p] = ")" THEN depth > 0 /\ Balanced(text, p + 1, depth - 1)
    ELSE Balanced(text, p + 1, depth)

\* The pieces of the trimmed text between its semicolons outside parentheses
SemicolonSegments(text) == split_on_delimiters(Strip(text), {";"})

\* (C27) No comma or semicolon inside parentheses separates parts; and a
\* definition that is no guard case and no single-token case and has k >= 2
\* semicolon segments comes back with those k segments as its parts, in
\* source order.
C27_SemicolonSegments ==
    call.fn = "parse_definition" =>
        /\ Balanced(call.text, 1, 0) =>
              \A i \in 1..Len(result.v.parts) :
                  Balanced(result.v.parts[i].text, 1, 0)
        /\ IsSplit(call.text) /\ Len(SemicolonSegments(call.text)) >= 2 =>
              PartTexts(result.v.parts) = SemicolonSegments(call.text)

\* (C27, as the code has it) No comma or semicolon inside parentheses
\* separates parts; and a definition that is no guard case, no sentence
\* without comma and semicolon and no entry reference, and has k >= 2
\* semicolon segments, comes back with those k segments as its parts, in
\* source order, but for the last one when global_parenthetical is set: the
\* last part is then the last segment without its trailing parenthetical,
\* and there is no last part when the segment is nothing but the
\* parenthetical.
C27_SemicolonSegmentsButGlobal ==
    call.fn = "parse_definition" =>
        /\ Balanced(call.text, 1, 0) =>
              \A i \in 1..Len(result.v.parts) :
                  Balanced(result.v.parts[i].text, 1, 0)
        /\ IsSplit(call.text) /\ Len(SemicolonSegments(call.text)) >= 2 =>
              PartTexts(result.v.parts) =
                  IF result.v.global_parenthetical = <<>>
                  THEN SemicolonSegments(call.text)
                  ELSE NonBlank(LastStripped(SemicolonSegments(call.text)))

\* `a, b; c` has been parsed: two parts, the comma inside the first
C27_Witness ==
    /\ IsEkCall("parse_definition", <<"a", ",", " ", "b", ";", " ", "c">>, <<>>)
    /\ PartTexts(result.v.parts) = <<<<"a", ",", " ", "b">>, <<"c">>>>

\* (C30) Of every ParsedDefinition that parse_definition returns: no_permute
\* comes with exactly one part, dedup unset and global_parenthetical unset;
\* dedup comes with exactly two parts; the two flags are never both set;
\* and no part has an empty text.
C30_FlagsAndParts ==
    call.fn = "parse_definition" =>
        /\ result.v.no_permute =>
              /\ Len(result.v.parts) = 1
              /\ ~result.v.dedup
              /\ result.v.global_parenthetical = <<>>
        /\ result.v.dedup => Len(result.v.parts) = 2
        /\ ~(result.v.no_permute /\ result.v.dedup)
        /\ \A i \in 1..Len(result.v.parts) : result.v.parts[i].text # <<>>

\* `actor, actress` has been parsed: two parts that are deduplicated
C30_Witness ==
    /\ IsEkCall("parse_definition", <<"a", "c", "t", "o", "r", ",", " ", "a", "c", "t", "r", "e", "s", "s">>, <<>>)
    /\ result.v.dedup
    /\ ~result.v.no_permute
    /\ PartTexts(result.v.parts) = <<<<"a", "c", "t", "o", "r">>, <<"a", "c", "t", "r", "e", "s", "s">>>>

====
